---- MODULE Spec2Model ----
(***************************************************************************)
(* A model of the image resolution, ancestry and deletion engine of        *)
(* lib/backends/sdc/images.js (sdc-docker).                                *)
(*                                                                         *)
(* Strings are sequences of one-character strings.  "a", "b", "c" are hex  *)
(* digits, "r" is a letter that is no hex digit, "S" stands for the word   *)
(* sha256, ":" and "@" are the separators of a repo[:tag|@digest] name.    *)
(* A full docker id / digest hex part has IdLen characters (64 in the      *)
(* program).                                                               *)
(***************************************************************************)
EXTENDS Integers, Sequences, FiniteSets, TLC

VARIABLES imagesV1, tagsV1, imagesV2, tagsV2, blobs, last, gScratchImage, ctx

vars == <<imagesV1, tagsV1, imagesV2, tagsV2, blobs, last, gScratchImage, ctx>>

\* ------------------------------------------------------------------ bounds

\* at most this many things have happened to the records of the initial
\* stores: an image pulled (as a head), an ancestor record lost from a pulled
\* chain (DOCKER-709)
MaxEvents == 2
\* at most this many blobs have been removed from IMGAPI behind the engine's
\* back
MaxGone == 1

\* ----------------------------------------------------------------- strings

HexChars == {"a", "b", "c"}

IdLen == Len(<<"a", "a">>)

EmptyStr == << >>

Sha256Prefix == <<"S", ":">>

IsHex(s) ==
    /\ s # EmptyStr
    /\ \A i \in 1..Len(s) : s[i] \in HexChars

IsPrefix(p, s) ==
    /\ Len(p) <= Len(s)
    /\ SubSeq(s, 1, Len(p)) = p

\* position of the first occurrence of character c in s, 0 if there is none
IndexOf(s, c) ==
    IF \E i \in 1..Len(s) : s[i] = c
    THEN CHOOSE i \in 1..Len(s) : s[i] = c /\ \A j \in 1..(i - 1) : s[j] # c
    ELSE 0

DefaultTag == <<"l">>

NoStr == <<"?">>

\* opts.index_name when the caller gives none
NoIndex == "any"

\* drc.parseRepoAndTag: repo[:tag] or repo@digest; the tag defaults to latest
ParseRepoAndTag(name) ==
    LET at == IndexOf(name, "@")
        co == IndexOf(name, ":")
    IN  IF at > 0
        THEN [localName |-> SubSeq(name, 1, at - 1),
              tag       |-> NoStr,
              digest    |-> SubSeq(name, at + 1, Len(name))]
        ELSE IF co > 0
        THEN [localName |-> SubSeq(name, 1, co - 1),
              tag       |-> SubSeq(name, co + 1, Len(name)),
              digest    |-> NoStr]
        ELSE [localName |-> name, tag |-> DefaultTag, digest |-> NoStr]

\* ----------------------------------------------------------------- catalog
\* What the registries hold.  A docker id / digest is a content hash, so the
\* parent and the layers of an image are functions of it.

Owners == {"A", "B"}

\* the account on whose behalf the engine is called
Callers == {"A"}

IndexNames == {"io", "qy"}

Id_aa == <<"a", "a">>
Id_ab == <<"a", "b">>
Id_ba == <<"b", "a">>
Id_bb == <<"b", "b">>

DockerIds == {Id_aa, Id_ab, Id_ba}

\* v1: ab and ba are both children of the base image aa, bb is a child of ba
ParentV1(id) ==
    IF id = Id_aa THEN EmptyStr ELSE IF id = Id_bb THEN Id_ba ELSE Id_aa

DigestOf(hex) == Sha256Prefix \o hex

Digests == {DigestOf(Id_aa), DigestOf(Id_ab), DigestOf(Id_ba), DigestOf(Id_bb)}

\* v2: aa <- ab <- ba is one build chain (ba is a metadata-only child of ab);
\* bb is an independent image with the same layers as ab
ParentV2(digest) ==
    IF digest = DigestOf(Id_ab) THEN DigestOf(Id_aa)
    ELSE IF digest = DigestOf(Id_ba) THEN DigestOf(Id_ab)
    ELSE EmptyStr

\* manifest.layers[*].digest of the image, root layer first
LayerDigests(digest) ==
    IF digest = DigestOf(Id_aa) THEN <<"l1">> ELSE <<"l1", "l2">>

\* image.history of a v2 image, the oldest entry first, each entry by its
\* created_by: one entry per build step; ba adds a step without a layer to ab
HistoryOf(digest) ==
    IF digest = DigestOf(Id_aa) THEN <<"h1">>
    ELSE IF digest = DigestOf(Id_ba) THEN <<"h1", "h2", "h3">>
    ELSE <<"h1", "h2">>

ManifestDigestOf(digest) == Sha256Prefix \o <<"c">> \o SubSeq(digest, 3, Len(digest))

\* img.created as a unix time: a child is newer than its parent, the v2
\* images are newer than the v1 images
CreatedOf(schema, id) ==
    (IF schema = "v2" THEN 3 ELSE 0)
        + (IF id = Id_aa THEN 1 ELSE IF id = Id_ab THEN 2
           ELSE IF id = Id_ba THEN 3 ELSE 4)

\* imgmanifest.imgUuidFromDockerDigests: the IMGAPI uuid of a layer chain
ImgUuidFromDockerDigests(layerDigests) ==
    [schema |-> "v2", index |-> "", id |-> layerDigests]

\* imgmanifest.imgUuidFromDockerInfo: the IMGAPI uuid of a v1 image
ImgUuidFromDockerInfo(indexName, id) ==
    [schema |-> "v1", index |-> indexName, id |-> id]

\* imgmanifest.dockerIdFromDigest
DockerIdFromDigest(digest) == SubSeq(digest, 3, Len(digest))

\* ------------------------------------------------------------------ records

None == [kind |-> "none"]

\* models/image.js: a v1 record; refcount is the length of its heads list
ImageV1(owner, indexName, id, head, heads) ==
    [kind |-> "v1", owner_uuid |-> owner, index_name |-> indexName,
     docker_id |-> id, head |-> head, heads |-> heads]

ImageV2(owner, digest, head) ==
    [kind |-> "v2", owner_uuid |-> owner, digest |-> digest, head |-> head]

ImageTagV1(owner, indexName, repo, tag, id) ==
    [owner_uuid |-> owner, index_name |-> indexName, repo |-> repo,
     tag |-> tag, docker_id |-> id]

ImageTagV2(owner, repo, tag, digest) ==
    [owner_uuid |-> owner, repo |-> repo, tag |-> tag, digest |-> digest]

isV1Image(img) == img.kind = "v1"

Refcount(img) == Len(img.heads)

ParentOf(img) ==
    IF isV1Image(img) THEN ParentV1(img.docker_id) ELSE ParentV2(img.digest)

ImageUuid(img) ==
    IF isV1Image(img)
    THEN ImgUuidFromDockerInfo(img.index_name, img.docker_id)
    ELSE ImgUuidFromDockerDigests(LayerDigests(img.digest))

\* the IMGAPI origin of a blob: the blob of the chain without its last layer
\* (v2), the blob of the parent image (v1); None for a base blob
OriginOf(uuid) ==
    IF uuid.schema = "v2"
    THEN IF Len(uuid.id) > 1
         THEN ImgUuidFromDockerDigests(SubSeq(uuid.id, 1, Len(uuid.id) - 1))
         ELSE None
    ELSE IF ParentV1(uuid.id) # EmptyStr
         THEN ImgUuidFromDockerInfo(uuid.index, ParentV1(uuid.id))
         ELSE None

RECURSIVE BlobChain(_)
BlobChain(uuid) ==
    IF OriginOf(uuid) = None THEN {uuid} ELSE {uuid} \cup BlobChain(OriginOf(uuid))

\* ------------------------------------------------------------ initial stores

RECURSIVE ChainV1(_)
ChainV1(id) == IF id = EmptyStr THEN {} ELSE {id} \cup ChainV1(ParentV1(id))

RECURSIVE ChainV2(_)
ChainV2(digest) ==
    IF digest = EmptyStr THEN {} ELSE {digest} \cup ChainV2(ParentV2(digest))

\* what can have been pulled: (owner, digest) and (owner, index, docker id)
PullableV2 ==
    ({"A"} \X Digests) \cup ({"B"} \X {DigestOf(Id_aa), DigestOf(Id_bb)})

PullableV1 ==
    ({"A"} \X {"io"} \X DockerIds) \cup {<<"A", "qy", Id_ab>>, <<"B", "io", Id_ab>>}

\* a sequence holding the elements of a finite set, in a fixed order
RECURSIVE SeqOfSet(_)
SeqOfSet(S) ==
    IF S = {} THEN << >>
    ELSE LET x == CHOOSE y \in S : TRUE
         IN  <<x>> \o SeqOfSet(S \ {x})

\* the v1 records a set of pulls leaves: each pulled head and its ancestors,
\* every record listing the heads it serves (the head itself included)
PulledV1Records(p1) ==
    UNION { { ImageV1(q[1], q[2], id, <<q[1], q[2], id>> \in p1,
                      SeqOfSet({ h \in { p[3] : p \in p1 } :
                                   /\ <<q[1], q[2], h>> \in p1
                                   /\ id \in ChainV1(h) })) :
                id \in ChainV1(q[3]) } : q \in p1 }

\* the v2 records a set of pulls and builds leaves: head for what was pulled,
\* intermediate for the ancestors that were not
PulledV2Records(p2) ==
    UNION { { ImageV2(q[1], d, <<q[1], d>> \in p2) : d \in ChainV2(q[2]) } :
            q \in p2 }

\* (repo, tag) pairs images are tagged with; the repo "a" is also a hex string
TagKeys == { <<<<"r">>, DefaultTag>>, <<<<"a">>, DefaultTag>> }

\* the tag records of one owner: each key names one head of its schema (and
\* index, for v1) or nothing
TagSetsV1By(recs, owner) ==
    LET heads == { r \in recs : r.head /\ r.owner_uuid = owner }
        slots == TagKeys \X IndexNames
        maps  == [slots -> heads \cup {None}]
    IN  { { ImageTagV1(m[k].owner_uuid, k[2], k[1][1], k[1][2], m[k].docker_id) :
              k \in { x \in slots : m[x] # None } } :
          m \in { f \in maps : \A k \in slots :
                      f[k] # None => f[k].index_name = k[2] } }

TagSetsV2By(recs, owner) ==
    LET heads == { r \in recs : r.head /\ r.owner_uuid = owner }
        maps  == [TagKeys -> heads \cup {None}]
    IN  { { ImageTagV2(m[k].owner_uuid, k[1], k[2], m[k].digest) :
              k \in { x \in TagKeys : m[x] # None } } : m \in maps }

\* the tag records of the owners given, each owner tagging its own heads
RECURSIVE TagSetsV1Of(_, _)
TagSetsV1Of(recs, owners) ==
    IF owners = {} THEN { {} }
    ELSE LET o == CHOOSE x \in owners : TRUE
         IN  { a \cup b : a \in TagSetsV1By(recs, o),
                          b \in TagSetsV1Of(recs, owners \ {o}) }

RECURSIVE TagSetsV2Of(_, _)
TagSetsV2Of(recs, owners) ==
    IF owners = {} THEN { {} }
    ELSE LET o == CHOOSE x \in owners : TRUE
         IN  { a \cup b : a \in TagSetsV2By(recs, o),
                          b \in TagSetsV2Of(recs, owners \ {o}) }

\* the tag records of the caller
TagSetsV1(recs) == TagSetsV1Of(recs, Callers)

TagSetsV2(recs) == TagSetsV2Of(recs, Callers)

\* the blobs IMGAPI holds for a set of records: theirs and their origins
BlobsOf(recs) == UNION { BlobChain(ImageUuid(r)) : r \in recs }

\* ------------------------------------------------------- the stores (moray)
\* A store value: the four buckets and the blobs of IMGAPI.

Store == [i1 |-> imagesV1, t1 |-> tagsV1, i2 |-> imagesV2, t2 |-> tagsV2,
          blobs |-> blobs]

\* imgapi.getImage: "ok", "404" when the blob is not there, "error" when the
\* call fails for another reason (fault)
GetImage(s, uuid, fault) ==
    IF fault THEN "error" ELSE IF uuid \in s.blobs THEN "ok" ELSE "404"

\* a tagsForImage that lists the tag records of every owner
tagsForImage_AnyOwner(s, img, owner) ==
    IF isV1Image(img)
    THEN { t \in s.t1 : t.docker_id = img.docker_id }
    ELSE { t \in s.t2 : t.digest = img.digest }

\* tagsForImage without opts.index_name: the owner's tag records of the image
tagsForImage(s, img, owner) ==
    IF isV1Image(img)
    THEN { t \in s.t1 : t.owner_uuid = owner /\ t.docker_id = img.docker_id }
    ELSE { t \in s.t2 : t.owner_uuid = owner /\ t.digest = img.digest }

\* ---------------------------------------------------------- name resolution

Resolved(err, img, imgTag, s) ==
    [err |-> err, img |-> img, imgTag |-> imgTag, s |-> s]

\* a findByName that finds no v2 tag record
FindByNameV2_NoTag(s, owner, rat) == None

\* _imgFromNameV2.findByName: the tag record for (repo, owner, tag)
FindByNameV2(s, owner, rat) ==
    LET imgTags == { t \in s.t2 : /\ t.repo = rat.localName
                                  /\ t.owner_uuid = owner
                                  /\ t.tag = rat.tag }
    IN  IF imgTags = {} THEN None ELSE CHOOSE t \in imgTags : TRUE

\* _imgFromNameV2.findImage: the records the filter selects, {} when the name
\* is neither a tag nor a hex string
FindImageV2(s, owner, name, imgTag) ==
    IF imgTag # None
    THEN { r \in s.i2 : r.digest = imgTag.digest /\ r.owner_uuid = owner }
    ELSE IF IsPrefix(Sha256Prefix, name)
            /\ IsHex(SubSeq(name, Len(Sha256Prefix) + 1, Len(name)))
    THEN { r \in s.i2 : IsPrefix(name, r.digest) /\ r.owner_uuid = owner }
    ELSE IF IsHex(name)
    THEN { r \in s.i2 : /\ IsPrefix(Sha256Prefix \o name, r.digest)
                        /\ r.owner_uuid = owner }
    ELSE {}

\* the same steps without delImgTagRef
HealOrReturn_KeepsTag(s, img, imgTag, fault) ==
    IF img = None
    THEN [err |-> "none", img |-> None, imgTag |-> imgTag, s |-> s]
    ELSE IF fault
    THEN [err |-> "ImgapiError", img |-> None, imgTag |-> None, s |-> s]
    ELSE IF ImageUuid(img) \in s.blobs
    THEN [err |-> "none", img |-> img, imgTag |-> imgTag, s |-> s]
    ELSE [err |-> "none", img |-> None, imgTag |-> None,
          s |-> [s EXCEPT !.i1 = @ \ {img}, !.i2 = @ \ {img}]]

\* isImageInImgapi, delImgRef, delImgTagRef and the final callback, the same
\* in _imgFromNameV1 and _imgFromNameV2
HealOrReturn(s, img, imgTag, fault) ==
    IF img = None
    THEN Resolved("none", None, imgTag, s)
    ELSE LET got == GetImage(s, ImageUuid(img), fault)
         IN  IF got = "ok" THEN Resolved("none", img, imgTag, s)
             ELSE IF got = "error" THEN Resolved("ImgapiError", None, None, s)
             ELSE Resolved("none", None, None,
                           [s EXCEPT !.i1 = @ \ {img}, !.i2 = @ \ {img},
                                     !.t1 = @ \ {imgTag}, !.t2 = @ \ {imgTag}])

\* an _imgFromNameV2 that calls back without the tag record
_imgFromNameV2_DropsTag(s, owner, rat, fault) ==
    LET imgTag == FindByNameV2(s, owner, rat)
        imgs   == FindImageV2(s, owner, rat.localName, imgTag)
        img    == IF Cardinality(imgs) = 1 THEN CHOOSE r \in imgs : TRUE ELSE None
    IN  [HealOrReturn(s, img, imgTag, fault) EXCEPT !.imgTag = None]

_imgFromNameV2(s, owner, rat, fault) ==
    LET imgTag == FindByNameV2(s, owner, rat)
        imgs   == FindImageV2(s, owner, rat.localName, imgTag)
        img    == IF Cardinality(imgs) = 1 THEN CHOOSE r \in imgs : TRUE ELSE None
    IN  HealOrReturn(s, img, imgTag, fault)

\* _imgFromNameV1.findByName: the tag records for (repo, owner, tag[, index])
FindByNameV1(s, owner, rat, index_name) ==
    { t \in s.t1 : /\ t.repo = rat.localName
                   /\ t.owner_uuid = owner
                   /\ t.tag = rat.tag
                   /\ (index_name # NoIndex => t.index_name = index_name) }

\* _imgFromNameV1.findImage: the records the filter selects
FindImageV1(s, owner, name, imgTag, index_name) ==
    LET byIndex(r) == index_name # NoIndex => r.index_name = index_name
    IN  IF imgTag # None
        THEN { r \in s.i1 : /\ r.docker_id = imgTag.docker_id
                            /\ r.owner_uuid = owner /\ byIndex(r) }
        ELSE IF IsHex(name) /\ Len(name) <= IdLen
        THEN IF Len(name) = IdLen
             THEN { r \in s.i1 : /\ r.docker_id = name
                                 /\ r.owner_uuid = owner /\ byIndex(r) }
             ELSE { r \in s.i1 : /\ IsPrefix(name, r.docker_id)
                                 /\ r.owner_uuid = owner /\ byIndex(r) }
        ELSE {}

\* a resolution that takes one of the records when Image.list answers several
_imgFromNameV1_AnyMatch(s, owner, rat, index_name, imgTag, fault) ==
    LET imgs == FindImageV1(s, owner, rat.localName, imgTag, index_name)
    IN  HealOrReturn(s, IF imgs = {} THEN None ELSE CHOOSE r \in imgs : TRUE,
                     imgTag, fault)

\* imgTag is imgTags[0], the first tag record moray lists, or None
_imgFromNameV1(s, owner, rat, index_name, imgTag, fault) ==
    LET imgs == FindImageV1(s, owner, rat.localName, imgTag, index_name)
        img  == IF Cardinality(imgs) = 1 THEN CHOOSE r \in imgs : TRUE ELSE None
    IN  IF /\ Cardinality(imgs) > 1
           /\ Cardinality({ r.docker_id : r \in imgs }) = 1
        THEN Resolved("AmbiguousId", None, None, s)
        ELSE HealOrReturn(s, img, imgTag, fault)

\* imgFromDigest and imgFromManifestDigest: findImage, checkImageInImgapi;
\* imgs is what ImageV2.list answers for the digest filter
ImgFromDigestLookup(s, imgs, fault) ==
    IF imgs = {} THEN Resolved("ResourceNotFound", None, None, s)
    ELSE IF Cardinality(imgs) > 1 THEN Resolved("DockerError", None, None, s)
    ELSE LET img == CHOOSE r \in imgs : TRUE
             got == GetImage(s, ImageUuid(img), fault)
         IN  IF got = "ok" THEN Resolved("none", img, None, s)
             ELSE IF got = "404" THEN Resolved("ResourceNotFound", None, None, s)
             ELSE Resolved("ImgapiError", None, None, s)

imgFromManifestDigest(s, owner, manifestDigest, fault) ==
    ImgFromDigestLookup(s,
        { r \in s.i2 : /\ ManifestDigestOf(r.digest) = manifestDigest
                       /\ r.owner_uuid = owner }, fault)

imgFromDigest(s, owner, digest, fault) ==
    ImgFromDigestLookup(s,
        { r \in s.i2 : r.digest = digest /\ r.owner_uuid = owner }, fault)

\* imgFromName: the pipeline findByManifestDigest, findByImageDigest,
\* findByNameV2, findByNameV1 (findUuidInImgapi does nothing: includeSmartos is
\* not set by deleteImage and inspectImage).  v1Tag is the tag record moray
\* lists first for the v1 tag filter.
imgFromName(s, owner, name, index_name, v1Tag, fault) ==
    LET rat == ParseRepoAndTag(name)
        byManifest == imgFromManifestDigest(s, owner, rat.digest, fault)
        byDigest   == imgFromDigest(s, owner, name, fault)
        byNameV2   == _imgFromNameV2(s, owner, rat, fault)
    IN  IF rat.digest # NoStr /\ (byManifest.img # None \/ byManifest.err # "none")
        THEN byManifest
        ELSE IF /\ Len(name) = IdLen + Len(Sha256Prefix)
                /\ IsPrefix(Sha256Prefix, name)
                /\ (byDigest.img # None \/ byDigest.err # "none")
        THEN byDigest
        ELSE IF byNameV2.img # None \/ byNameV2.err # "none"
        THEN byNameV2
        ELSE _imgFromNameV1(byNameV2.s, owner, rat, index_name, v1Tag, fault)

\* the tag records moray can list first for the v1 tag filter of a name, in
\* the store findByNameV1 sees; {None} when there is none
FirstTagsV1(s, owner, name, index_name, fault) ==
    LET rat == ParseRepoAndTag(name)
        ts  == FindByNameV1(_imgFromNameV2(s, owner, rat, fault).s,
                            owner, rat, index_name)
    IN  IF ts = {} THEN {None} ELSE ts

\* ------------------------------------------------------------------ ancestry

\* a parent lookup over the records of every owner
ParentRecord_AnyOwner(s, img) ==
    LET found == IF isV1Image(img)
                 THEN { r \in s.i1 : /\ r.index_name = img.index_name
                                     /\ r.docker_id = ParentOf(img) }
                 ELSE { r \in s.i2 : r.digest = ParentOf(img) }
    IN  IF found = {} THEN None ELSE CHOOSE r \in found : TRUE

\* imgFromImgInfoV1 / imgFromImgInfoV2: the parent record, None when the
\* lookup answers ResourceNotFound; opts.account is the owner of img in every
\* call of getImageAncestry
ParentRecord(s, img) ==
    LET found == IF isV1Image(img)
                 THEN { r \in s.i1 : /\ r.owner_uuid = img.owner_uuid
                                     /\ r.index_name = img.index_name
                                     /\ r.docker_id = ParentOf(img) }
                 ELSE { r \in s.i2 : /\ r.owner_uuid = img.owner_uuid
                                     /\ r.digest = ParentOf(img) }
    IN  IF found = {} THEN None ELSE CHOOSE r \in found : TRUE

\* getImageAncestry.addAndGetNextItem and checkAndCallback: the image, then
\* its parents; failAt is the parent lookup moray fails at (an error that is
\* not ResourceNotFound), 0 when moray answers them all
RECURSIVE AncestryWalk(_, _, _)
AncestryWalk(s, img, failAt) ==
    IF ParentOf(img) = EmptyStr
    THEN [err |-> "none", ancestry |-> <<img>>, isPartial |-> FALSE]
    ELSE IF failAt = 1
    THEN [err |-> "MorayError", ancestry |-> << >>, isPartial |-> FALSE]
    ELSE IF ParentRecord(s, img) = None
    THEN [err |-> "none", ancestry |-> <<img>>, isPartial |-> TRUE]
    ELSE LET rest == AncestryWalk(s, ParentRecord(s, img),
                                  IF failAt = 0 THEN 0 ELSE failAt - 1)
         IN  IF rest.err # "none" THEN rest
             ELSE [rest EXCEPT !.ancestry = <<img>> \o @]

\* getImageAncestry when moray answers: (ancestry, isPartialAncestry)
getImageAncestry(s, img) ==
    LET walk == AncestryWalk(s, img, 0)
    IN  [ancestry |-> walk.ancestry, isPartial |-> walk.isPartial]

\* ------------------------------------------------------------------- history

\* a reverse() that leaves the list in its order
Reverse_InOrder(q) == q

Reverse(q) == [i \in 1..Len(q) |-> q[Len(q) + 1 - i]]

\* the Id of the entries getImageHistory makes up
MissingId == <<"<", "m", "i", "s", "s", "i", "n", "g", ">">>

\* lookupAncestorTags: the entry of a record of the ancestry; Tags holds the
\* repo:tag of its tag records (as a set: moray's order is left out)
HistoryEntry(s, img, owner) ==
    [Id      |-> IF isV1Image(img) THEN img.docker_id ELSE img.digest,
     Created |-> CreatedOf(img.kind, IF isV1Image(img) THEN img.docker_id
                                     ELSE DockerIdFromDigest(img.digest)),
     Tags    |-> { t.repo \o <<":">> \o t.tag : t \in tagsForImage(s, img, owner) }]

\* a getImageHistory that fills in nothing
MissingEntries_None(imgHist, walked) == << >>

\* imgHist.slice(0, -(history.length)).reverse().map(...): the entries of the
\* embedded list that the walk did not reach, the newest of them first
MissingEntries(imgHist, walked) ==
    IF Len(imgHist) > walked
    THEN LET excess == SubSeq(imgHist, 1, Len(imgHist) - walked)
         IN  [i \in 1..Len(excess) |->
                 [Id |-> MissingId, CreatedBy |-> Reverse(excess)[i],
                  Tags |-> "null"]]
    ELSE << >>

\* getImageHistory: an entry per record of the ancestry, the image first;
\* for a v2 image the blanks are filled from img.history and the lengths are
\* asserted equal
getImageHistory(s, img, owner) ==
    LET ancestry == getImageAncestry(s, img).ancestry
        walked   == [i \in 1..Len(ancestry) |-> HistoryEntry(s, ancestry[i], owner)]
        filled   == walked \o MissingEntries(HistoryOf(img.digest), Len(walked))
    IN  IF isV1Image(img)
        THEN [err |-> "none", history |-> walked]
        ELSE IF Len(filled) # Len(HistoryOf(img.digest))
        THEN [err |-> "AssertionError", history |-> << >>]
        ELSE [err |-> "none", history |-> filled]

\* ------------------------------------------------------------------ deletion

\* the sequences that list the elements of a finite set once each
RECURSIVE Orders(_)
Orders(S) ==
    IF S = {} THEN { << >> }
    ELSE UNION { { <<x>> \o o : o \in Orders(S \ {x}) } : x \in S }

Range(q) == { q[i] : i \in 1..Len(q) }

Untagged(t) == [Untagged |-> t.repo \o <<":">> \o t.tag]

Deleted(id) == [Deleted |-> id]

\* a listVms that asks for the active VMs whatever force is
ListVms_Active(vmStates, force) == vmStates

\* vmapi.listVms for the owner's docker VMs on the image: force asks for the
\* running ones, no force for the active (running or stopped) ones
ListVms(vmStates, force) ==
    IF force THEN vmStates \cap {"running"} ELSE vmStates

\* imgapi.deleteImage: "ImageHasDependentImages" while another blob has this
\* one as its origin, "404" when it is not there, else "ok" and it is gone
ImgapiDeleteImage(blobSet, uuid) ==
    IF uuid \notin blobSet THEN "404"
    ELSE IF \E b \in blobSet : OriginOf(b) = uuid THEN "ImageHasDependentImages"
    ELSE "ok"

\* the outcome of a deletion: the error, the change log, the store, and the
\* blobs imgapi.deleteImage was called for, in call order
Outcome(err, changes, s, reqs, untagOnly, vmQuery) ==
    [err |-> err, changes |-> changes, s |-> s, reqs |-> reqs,
     untagOnly |-> untagOnly, vmQuery |-> vmQuery]

\* untagHeads / deleteDockerTags: delete the tag records in list order
UntagAll(s, imgTags) ==
    [s EXCEPT !.t1 = @ \ Range(imgTags), !.t2 = @ \ Range(imgTags)]

\* an untagging that logs nothing
UntaggedLog_Empty(imgTags) == << >>

UntaggedLog(imgTags) == [i \in 1..Len(imgTags) |-> Untagged(imgTags[i])]

\* a getImgsToDelete filter that drops the head ancestors and keeps the
\* ancestors older than them
UntilHead_SkipsHeads(ancestors) == SelectSeq(ancestors, LAMBDA r : ~r.head)

\* _deleteImageV2.getImgsToDelete: the image, then its ancestors up to the
\* first one that is a head image
RECURSIVE UntilHead(_)
UntilHead(ancestors) ==
    IF ancestors = << >> \/ Head(ancestors).head THEN << >>
    ELSE <<Head(ancestors)>> \o UntilHead(Tail(ancestors))

\* a getImgsToDelete that leaves out the image itself
ImgsToDeleteV2_AncestorsOnly(ancestry) == UntilHead(Tail(ancestry))

ImgsToDeleteV2(ancestry) == <<ancestry[1]>> \o UntilHead(Tail(ancestry))

\* _deleteImageV2.deleteImgapiLayers: layerInfos, root layer first
LayerInfos(digest) ==
    LET layers == LayerDigests(digest)
    IN  [i \in 1..Len(layers) |->
            [layerDigest |-> layers[i],
             diffId      |-> <<"diff", layers[i]>>,
             uuid        |-> ImgUuidFromDockerDigests(SubSeq(layers, 1, i))]]

\* ownUuidRefCount: how many records of the cascade have this IMGAPI uuid
OwnUuidRefCount(imgsToDelete, uuid) ==
    Cardinality({ i \in 1..Len(imgsToDelete) : ImageUuid(imgsToDelete[i]) = uuid })

\* deleteLayer's count over the records of the deleting owner only
ImageRefCnt_OwnerOnly(s, imgsToDelete, uuid) ==
    Cardinality({ r \in s.i2 : /\ ImageUuid(r) = uuid
                               /\ r.owner_uuid = imgsToDelete[1].owner_uuid }) - 1

\* deleteLayer's count without the lookup of the other records
ImageRefCnt_NoLookup(s, imgsToDelete, uuid) == 0

\* deleteLayer's count: the v2 records of the whole DC on this uuid, less one
\* when the cascade has a record on it
ImageRefCnt(s, imgsToDelete, uuid) ==
    LET imgs == { r \in s.i2 : ImageUuid(r) = uuid }
    IN  IF OwnUuidRefCount(imgsToDelete, uuid) > 0
        THEN Cardinality(imgs) - 1
        ELSE Cardinality(imgs)

\* deleteLayer over the layers, leaf first; acc carries the blobs, the
\* hitImageHasDependentImagesError flag, the changes, the requests, the error
RECURSIVE DeleteLayers(_, _, _, _)
DeleteLayers(s, imgsToDelete, layers, acc) ==
    IF layers = << >> \/ acc.err # "none" THEN acc
    ELSE LET uuid == Head(layers).uuid
             res  == ImgapiDeleteImage(acc.blobs, uuid)
             step ==
                 IF acc.hit THEN acc
                 ELSE IF ImageRefCnt(s, imgsToDelete, uuid) >= 1
                 THEN [acc EXCEPT !.hit = TRUE]
                 ELSE IF res = "ImageHasDependentImages"
                 THEN [acc EXCEPT !.hit = TRUE, !.reqs = Append(@, uuid)]
                 ELSE IF res = "ok"
                 THEN [acc EXCEPT !.blobs = @ \ {uuid},
                                  !.reqs = Append(@, uuid),
                                  !.changes = Append(@, Deleted(Head(layers).diffId))]
                 ELSE [acc EXCEPT !.err = "ImgapiError", !.reqs = Append(@, uuid)]
         IN  DeleteLayers(s, imgsToDelete, Tail(layers), step)

\* a record deletion that logs nothing
DeletedLog_None(imgs) == << >>

DeletedLog(imgs) ==
    [i \in 1..Len(imgs) |->
        Deleted(IF isV1Image(imgs[i]) THEN imgs[i].docker_id ELSE imgs[i].digest)]

\* checkTagReferences without the force exemption
checkTagReferences_IgnoresForce(imgTag, force, imgTags) ==
    imgTag = None /\ Len(imgTags) > 1

\* checkJustUntagImage that never takes the untag-only exit
checkJustUntagImage_Never(imgTag, imgTags) == FALSE

\* checkTagReferences (v2): the image was found by digest, has several tags
\* and force is not set
checkTagReferences(imgTag, force, imgTags) ==
    imgTag = None /\ ~force /\ Len(imgTags) > 1

\* checkJustUntagImage: a tag name was given and the image has several tags
checkJustUntagImage(imgTag, imgTags) ==
    imgTag # None /\ Len(imgTags) > 1

\* a _deleteImageV2 whose untag step runs before verifyNotInUse
_deleteImageV2_UntagsFirst(s, owner, force, img, imgTag, imgTags, vmStates) ==
    IF checkTagReferences(imgTag, force, imgTags)
    THEN Outcome("ConflictTags", << >>, s, << >>, FALSE, FALSE)
    ELSE IF checkJustUntagImage(imgTag, imgTags)
    THEN Outcome("none", <<Untagged(imgTag)>>,
                 [s EXCEPT !.t2 = @ \ {imgTag}], << >>, TRUE, FALSE)
    ELSE IF ListVms(vmStates, force) # {}
    THEN Outcome("ConflictInUse", UntaggedLog(imgTags), UntagAll(s, imgTags),
                 << >>, FALSE, TRUE)
    ELSE LET imgsToDelete == ImgsToDeleteV2(getImageAncestry(s, img).ancestry)
             untagged == UntagAll(s, imgTags)
             layers   == DeleteLayers(untagged, imgsToDelete,
                             Reverse(LayerInfos(img.digest)),
                             [blobs |-> s.blobs, hit |-> FALSE,
                              changes |-> UntaggedLog(imgTags),
                              reqs |-> << >>, err |-> "none"])
         IN  IF layers.err # "none"
             THEN Outcome(layers.err, layers.changes,
                          [untagged EXCEPT !.blobs = layers.blobs],
                          layers.reqs, FALSE, TRUE)
             ELSE Outcome("none", layers.changes \o DeletedLog(imgsToDelete),
                          [untagged EXCEPT !.blobs = layers.blobs,
                                           !.i2 = @ \ Range(imgsToDelete)],
                          layers.reqs, FALSE, TRUE)

\* _deleteImageV2: imgTags is tagsForImage's answer in list order, vmStates
\* the states of the owner's VMs on the image
_deleteImageV2(s, owner, force, img, imgTag, imgTags, vmStates) ==
    IF checkTagReferences(imgTag, force, imgTags)
    THEN Outcome("ConflictTags", << >>, s, << >>, FALSE, FALSE)
    ELSE IF checkJustUntagImage(imgTag, imgTags)
    THEN Outcome("none", <<Untagged(imgTag)>>,
                 [s EXCEPT !.t2 = @ \ {imgTag}], << >>, TRUE, FALSE)
    ELSE IF ListVms(vmStates, force) # {}
    THEN Outcome("ConflictInUse", << >>, s, << >>, FALSE, TRUE)
    ELSE LET imgsToDelete == ImgsToDeleteV2(getImageAncestry(s, img).ancestry)
             untagged == UntagAll(s, imgTags)
             layers   == DeleteLayers(untagged, imgsToDelete,
                             Reverse(LayerInfos(img.digest)),
                             [blobs |-> s.blobs, hit |-> FALSE,
                              changes |-> UntaggedLog(imgTags),
                              reqs |-> << >>, err |-> "none"])
         IN  IF layers.err # "none"
             THEN Outcome(layers.err, layers.changes,
                          [untagged EXCEPT !.blobs = layers.blobs],
                          layers.reqs, FALSE, TRUE)
             ELSE Outcome("none", layers.changes \o DeletedLog(imgsToDelete),
                          [untagged EXCEPT !.blobs = layers.blobs,
                                           !.i2 = @ \ Range(imgsToDelete)],
                          layers.reqs, FALSE, TRUE)

\* Image.datacenterRefcount({index_name, docker_id, limit}): the docker ids,
\* among the images serving the head docker_id, that at most limit records of
\* the whole DC hold under index_name (the images ready to leave IMGAPI)
DatacenterRefcount(s, index_name, docker_id, limit) ==
    { d \in ChainV1(docker_id) :
        Cardinality({ r \in s.i1 : r.index_name = index_name /\ r.docker_id = d })
            <= limit }

RefcountLimit == 1

\* the entry getImgsToDelete logs for a partial ancestry
MissingHistoryWarning(name) == [Deleted |-> <<"warning">> \o name]

\* deleteOneImg's Image.update: drop the deleted head from heads, and the
\* head flag when the record is the deleted image itself
DropHead(img, target) ==
    [img EXCEPT !.heads = SelectSeq(@, LAMBDA id : id # target.docker_id),
                !.head  = IF img.docker_id = target.docker_id THEN FALSE ELSE @]

\* a deleteOneImg that forgets the ImageHasDependentImages answer
NotLastRefOrHit_IgnoresHit(img, dcRefcount, hit) == img.docker_id \notin dcRefcount

\* deleteOneImg: `!isLastRef || hitImageHasDependentImagesError`, the record
\* is deleted and IMGAPI is not called
NotLastRefOrHit(img, dcRefcount, hit) == img.docker_id \notin dcRefcount \/ hit

\* _deleteImageV1.deleteImgs.deleteOneImg over imgsToDelete, child first
RECURSIVE DeleteImgsV1(_, _, _, _)
DeleteImgsV1(target, dcRefcount, imgs, acc) ==
    IF imgs = << >> \/ acc.err # "none" THEN acc
    ELSE LET img  == Head(imgs)
             uuid == ImageUuid(img)
             res  == ImgapiDeleteImage(acc.blobs, uuid)
             gone == [acc EXCEPT !.i1 = @ \ {img},
                                 !.changes = Append(@, Deleted(img.docker_id))]
             step ==
                 IF Refcount(img) > 1
                 THEN [acc EXCEPT !.i1 = (@ \ {img}) \cup {DropHead(img, target)}]
                 ELSE IF NotLastRefOrHit(img, dcRefcount, acc.hit)
                 THEN gone
                 ELSE IF res = "ImageHasDependentImages"
                 THEN [gone EXCEPT !.hit = TRUE, !.reqs = Append(@, uuid)]
                 ELSE IF res = "ok"
                 THEN [gone EXCEPT !.blobs = @ \ {uuid}, !.reqs = Append(@, uuid)]
                 ELSE [gone EXCEPT !.err = "ImgapiError", !.reqs = Append(@, uuid)]
         IN  DeleteImgsV1(target, dcRefcount, Tail(imgs), step)

\* a getImgsToDelete that lists the oldest ancestor first
ImgsToDeleteV1_ParentFirst(history) == Reverse(history)

\* _deleteImageV1.getImgsToDelete: ctx.imgsToDelete is the ancestry as walked,
\* the image first
ImgsToDeleteV1(history) == history

\* _deleteImageV1 from getImgsToDelete on: getDatacenterRefcount, untagHeads,
\* deleteImgs
CascadeV1(s, img, imgTags, dontDeleteImages, changes) ==
    LET imgsToDelete == ImgsToDeleteV1(getImageAncestry(s, img).ancestry)
        dcRefcount   == DatacenterRefcount(s, img.index_name, img.docker_id,
                                           RefcountLimit)
        untagged     == UntagAll(s, imgTags)
        done         == DeleteImgsV1(img, dcRefcount, imgsToDelete,
                            [i1 |-> s.i1, blobs |-> s.blobs, hit |-> FALSE,
                             changes |-> changes \o UntaggedLog(imgTags),
                             reqs |-> << >>, err |-> "none"])
    IN  IF dontDeleteImages
        THEN Outcome("none", changes \o UntaggedLog(imgTags), untagged, << >>,
                     TRUE, FALSE)
        ELSE Outcome(done.err, done.changes,
                     [untagged EXCEPT !.i1 = done.i1, !.blobs = done.blobs],
                     done.reqs, FALSE, TRUE)

\* ensureIsHeadImage that lets every image through
ensureIsHeadImage_Never(img) == FALSE

\* ensureIsHeadImage: the image is not a head
ensureIsHeadImage(img) == img.head # TRUE

\* _deleteImageV1: name is opts.name as given; twice says what the pipeline
\* does when getImgsToDelete calls back a second time (partial ancestry):
\* "throws" (the second callback is rejected and the call never completes) or
\* "continues" (the later steps run)
_deleteImageV1(s, owner, name, force, img, imgTag, imgTags, vmStates, twice) ==
    LET byId      == IsPrefix(name, img.docker_id)
        untagOnly == ~byId /\ Len(imgTags) > 1
        partial   == getImageAncestry(s, img).isPartial
    IN  IF ensureIsHeadImage(img)
        THEN Outcome("ConflictHead", << >>, s, << >>, FALSE, FALSE)
        ELSE IF byId /\ ~force /\ Len(imgTags) > 1
        THEN Outcome("ConflictTags", << >>, s, << >>, FALSE, FALSE)
        ELSE IF untagOnly /\ imgTag = None
        THEN Outcome("AssertionError", << >>, s, << >>, FALSE, FALSE)
        ELSE IF ~untagOnly /\ ListVms(vmStates, force) # {}
        THEN Outcome("ConflictInUse", << >>, s, << >>, FALSE, TRUE)
        ELSE IF partial /\ twice = "throws"
        THEN Outcome("CallbackTwice", <<MissingHistoryWarning(name)>>, s, << >>,
                     untagOnly, ~untagOnly)
        ELSE CascadeV1(s, img, IF untagOnly THEN <<imgTag>> ELSE imgTags,
                       untagOnly,
                       IF partial THEN <<MissingHistoryWarning(name)>> ELSE << >>)

\* --------------------------------------------------------------- the calls

\* the names the engine is called with: hex prefixes and ids, repo names,
\* repo:tag, a full image digest, repo@manifest-digest
Names ==
    { <<"a">>, <<"b">>, Id_ab, Id_aa, <<"r">>, <<"a", ":", "t">>,
      DigestOf(Id_ab), <<"r", "@">> \o ManifestDigestOf(DigestOf(Id_bb)) }

NoCall == [op |-> "none"]

\* no _deleteImageV2 pipeline in progress for any account
NoCtx == [o \in Owners |-> [pc |-> "idle"]]

\* the blobs an operator can have removed from IMGAPI behind the engine's
\* back: those a record refers to and no other blob has as its origin
Removable(blobSet, recs) ==
    { b \in blobSet : /\ \E r \in recs : ImageUuid(r) = b
                      /\ ~\E c \in blobSet : OriginOf(c) = b }

\* the stores that at most maxEvents pulls and lost ancestor records, among
\* the pulls given, and at most maxGone blobs removed out of band can leave,
\* the owners given having tagged heads of theirs
InitStores(pullable1, pullable2, maxEvents, maxGone, taggers) ==
    \E p1 \in SUBSET pullable1, p2 \in SUBSET pullable2 :
        /\ Cardinality(p1) + Cardinality(p2) <= maxEvents
        /\ LET all1 == PulledV1Records(p1)
               all2 == PulledV2Records(p2)
               held == BlobsOf(all1 \cup all2)
           IN  \E m1 \in SUBSET { r \in all1 : ~r.head },
                  m2 \in SUBSET { r \in all2 : ~r.head },
                  gone \in SUBSET Removable(held, all1 \cup all2) :
                 /\ Cardinality(p1) + Cardinality(p2) + Cardinality(m1)
                        + Cardinality(m2) <= maxEvents
                 /\ Cardinality(gone) <= maxGone
                 /\ imagesV1 = all1 \ m1
                 /\ imagesV2 = all2 \ m2
                 /\ tagsV1 \in TagSetsV1Of(all1, taggers)
                 /\ tagsV2 \in TagSetsV2Of(all2, taggers)
                 /\ blobs = held \ gone
                 /\ last = NoCall
                 /\ gScratchImage = None
                 /\ ctx = NoCtx

\* the same stores with the tag records of the caller only
InitWith(pullable1, pullable2, maxEvents, maxGone) ==
    InitStores(pullable1, pullable2, maxEvents, maxGone, Callers)

Init == InitWith(PullableV1, PullableV2, MaxEvents, MaxGone)

SetStore(s) ==
    /\ imagesV1' = s.i1
    /\ tagsV1' = s.t1
    /\ imagesV2' = s.i2
    /\ tagsV2' = s.t2
    /\ blobs' = s.blobs

\* what vmapi.listVms can find for the image: the states of the owner's VMs
\* on it, nothing when the engine does not ask
VmAnswers(asked) == IF asked THEN SUBSET {"running", "stopped"} ELSE { {} }

\* what the pipeline can do with getImgsToDelete's second callback, which
\* happens on a partial ancestry only
SecondCallback(partial) ==
    IF partial THEN {"throws", "continues"} ELSE {"continues"}

\* deleteImage: getImg (imgFromName), then doDeleteImage.  The calls it can
\* make of the name on store s, for every force and every answer of moray,
\* IMGAPI and VMAPI: each with the record of the call and the store it leaves
DeleteOutcomes(s, owner, name) ==
    UNION { UNION {
        LET got == imgFromName(s, owner, name, NoIndex, v1Tag, fault)
            call(force) ==
                [op |-> "deleteImage", owner |-> owner, name |-> name,
                 force |-> force, img |-> got.img, imgTag |-> got.imgTag,
                 pre |-> s]
            failed(err) ==
                { [s    |-> got.s,
                   last |-> call(force) @@
                            [err |-> err, changes |-> << >>, reqs |-> << >>,
                             untagOnly |-> FALSE, vmQuery |-> FALSE,
                             vmStates |-> {}]] : force \in BOOLEAN }
        IN  IF got.err # "none" THEN failed(got.err)
            ELSE IF got.img = None THEN failed("ResourceNotFound")
            ELSE UNION { UNION {
                   LET run(vmStates, twice) ==
                           IF isV1Image(got.img)
                           THEN _deleteImageV1(got.s, owner, name, force,
                                    got.img, got.imgTag, imgTags, vmStates,
                                    twice)
                           ELSE _deleteImageV2(got.s, owner, force, got.img,
                                    got.imgTag, imgTags, vmStates)
                       asksVmapi == run({}, "continues").vmQuery
                       partial == /\ isV1Image(got.img)
                                  /\ getImageAncestry(got.s, got.img).isPartial
                   IN  { LET out == run(x[1], x[2])
                         IN  [s    |-> out.s,
                              last |-> call(force) @@
                                  [err |-> out.err, changes |-> out.changes,
                                   reqs |-> out.reqs,
                                   untagOnly |-> out.untagOnly,
                                   vmQuery |-> out.vmQuery,
                                   vmStates |-> x[1]]] :
                         x \in VmAnswers(asksVmapi) \X SecondCallback(partial) }
                   : force \in BOOLEAN }
                   : imgTags \in Orders(tagsForImage(got.s, got.img, owner)) }
        : v1Tag \in FirstTagsV1(s, owner, name, NoIndex, FALSE) }
        : fault \in BOOLEAN }

DeleteImage(owner, name) ==
    /\ last = NoCall
    /\ \E o \in DeleteOutcomes(Store, owner, name) :
           /\ SetStore(o.s)
           /\ last' = o.last
    /\ UNCHANGED <<gScratchImage, ctx>>

\* inspectImage: imgFromName, then the tags of the image
InspectImage(owner, name, index_name) ==
    /\ last = NoCall
    /\ \E fault \in BOOLEAN,
          v1Tag \in FirstTagsV1(Store, owner, name, index_name, FALSE) :
        LET got == imgFromName(Store, owner, name, index_name, v1Tag, fault)
        IN  /\ SetStore(got.s)
            /\ last' = [op |-> "inspectImage", owner |-> owner, name |-> name,
                        index_name |-> index_name,
                        err |-> IF got.err = "none" /\ got.img = None
                                THEN "ResourceNotFound" ELSE got.err,
                        img |-> got.img, imgTag |-> got.imgTag,
                        pre |-> Store]
    /\ UNCHANGED <<gScratchImage, ctx>>

\* what listImages is called with as opts.filters
Filters == {"none", "dangling", "unknown"}

NoTags == { <<"<none>", ":", "<none>">> }

\* the active zone-dataset images IMGAPI lists for an account: one public
\* image without origin, older than every docker image
SmartOSImages(owner) ==
    { [uuid |-> <<"u">>, origin |-> EmptyStr,
       published_at |-> 0] }

\* listSmartOSImages: an entry per image, imageFilter is not applied
listSmartOSImages(owner) ==
    LET imgs == SeqOfSet(SmartOSImages(owner))
    IN  [i \in 1..Len(imgs) |->
            [Id       |-> imgs[i].uuid \o imgs[i].uuid,
             Created  |-> imgs[i].published_at,
             ParentId |-> imgs[i].origin \o imgs[i].origin,
             RepoTags |-> { imgs[i].uuid }]]

\* an imageFilter that matches whatever the dangling filter says
imageFilter_IgnoresDangling(img, filters) == TRUE

\* imageFilter: isMatch; with dangling=true no image matches (the throw for
\* an unknown field is in ListDockerImages)
imageFilter(img, filters) == filters # "dangling"

\* listDockerImagesV2 / listDockerImagesV1: the entries of one schema, or the
\* error imageFilter throws on the first image it is applied to
ListDockerImages(s, owner, recs, all, filters) ==
    LET imgs    == { r \in recs : r.owner_uuid = owner /\ (all \/ r.head) }
        kept    == { r \in imgs : imageFilter(r, filters) }
        entry(r) ==
            LET imgTags == IF r.head THEN tagsForImage(s, r, owner) ELSE {}
            IN  [Id       |-> IF isV1Image(r) THEN r.docker_id ELSE r.digest,
                 Created  |-> IF isV1Image(r) THEN CreatedOf("v1", r.docker_id)
                              ELSE CreatedOf("v2", DockerIdFromDigest(r.digest)),
                 ParentId |-> ParentOf(r),
                 RepoTags |-> IF imgTags = {} THEN NoTags
                              ELSE { t.repo \o <<":">> \o t.tag : t \in imgTags }]
    IN  IF filters = "unknown" /\ imgs # {}
        THEN [err |-> "InvalidFilter", images |-> << >>]
        ELSE [err |-> "none",
              images |-> [i \in 1..Cardinality(kept) |-> entry(SeqOfSet(kept)[i])]]

\* dockerImages.sort: entry e put into a list sorted newest first
InsertByCreated(e, q) ==
    LET k == Cardinality({ i \in 1..Len(q) : q[i].Created >= e.Created })
    IN  SubSeq(q, 1, k) \o <<e>> \o SubSeq(q, k + 1, Len(q))

\* dockerImages.sort: newest (first) to oldest (last)
RECURSIVE SortNewestFirst(_)
SortNewestFirst(q) ==
    IF q = << >> THEN << >>
    ELSE InsertByCreated(q[Len(q)], SortNewestFirst(SubSeq(q, 1, Len(q) - 1)))

\* a listImages that always skips the v1 images
listImages_SkipsV1(s, owner, all, filters, skip_v1_images, skip_smartos) ==
    ListDockerImages(s, owner, s.i2, all, filters)

\* listImages: listSmartOSImages unless skip_smartos, listDockerImagesV2,
\* listDockerImagesV1 unless skip_v1_images, then the sort
listImages(s, owner, all, filters, skip_v1_images, skip_smartos) ==
    LET smartos == IF skip_smartos THEN << >> ELSE listSmartOSImages(owner)
        v2 == ListDockerImages(s, owner, s.i2, all, filters)
        v1 == IF skip_v1_images THEN [err |-> "none", images |-> << >>]
              ELSE ListDockerImages(s, owner, s.i1, all, filters)
    IN  IF v2.err # "none" THEN v2
        ELSE IF v1.err # "none" THEN v1
        ELSE [err |-> "none",
              images |-> SortNewestFirst(smartos \o v2.images \o v1.images)]

ListImages(owner, all, filters, skip_v1_images, skip_smartos) ==
    /\ last = NoCall
    /\ LET got == listImages(Store, owner, all, filters, skip_v1_images,
                             skip_smartos)
       IN  last' = [op |-> "listImages", owner |-> owner, all |-> all,
                    filters |-> filters, skip_v1_images |-> skip_v1_images,
                    skip_smartos |-> skip_smartos,
                    err |-> got.err, images |-> got.images, pre |-> Store]
    /\ UNCHANGED <<imagesV1, tagsV1, imagesV2, tagsV2, blobs, gScratchImage, ctx>>

\* getImageHistory on a record of the owner, as imgFromName resolved it
GetImageHistory(owner, img) ==
    /\ last = NoCall
    /\ img \in imagesV1 \cup imagesV2
    /\ img.owner_uuid = owner
    /\ ImageUuid(img) \in blobs
    /\ LET got == getImageHistory(Store, img, owner)
       IN  last' = [op |-> "getImageHistory", owner |-> owner, img |-> img,
                    err |-> got.err, history |-> got.history, pre |-> Store]
    /\ UNCHANGED <<imagesV1, tagsV1, imagesV2, tagsV2, blobs, gScratchImage, ctx>>

\* ------------------------------------------------------- models/image-v2.js

\* objectKey: '<owner_uuid>,<digest>'
objectKey(params) == <<params.owner_uuid, params.digest>>

\* a putObject that adds the value next to what the key holds
PutObject_Adds(bucket, rec) == bucket \cup {rec}

\* moray.putObject(BUCKET.name, image.key, image.raw()): the value of the key
\* is replaced
PutObject(bucket, rec) ==
    { r \in bucket : objectKey(r) # objectKey(rec) } \cup {rec}

\* moray.delObj(app.moray, BUCKET, key)
DelObj(bucket, params) ==
    { r \in bucket : objectKey(r) # objectKey(params) }

\* moray.updateObj({key, val}): the fields of val replace those of the value
\* the key holds; nothing is written when the key holds nothing
UpdateObj(bucket, params) ==
    { IF objectKey(r) = objectKey(params) THEN [r EXCEPT !.head = params.head]
      ELSE r : r \in bucket }

\* the params the model functions are called with
ParamsV2 == { ImageV2(o, d, h) : o \in Owners, d \in Digests, h \in BOOLEAN }

\* createImage, updateImage, deleteImage of the v2 model; last keeps what the
\* key held before
ModelCallV2(op, params, bucket) ==
    /\ imagesV2' = bucket
    /\ last' = [op |-> op, params |-> params,
                had |-> { r \in imagesV2 : objectKey(r) = objectKey(params) }]
    /\ UNCHANGED <<imagesV1, tagsV1, tagsV2, blobs, gScratchImage, ctx>>

createImage(params) ==
    ModelCallV2("ImageV2.create", params, PutObject(imagesV2, params))

updateImage(params) ==
    ModelCallV2("ImageV2.update", params, UpdateObj(imagesV2, params))

deleteImageV2Model(params) ==
    ModelCallV2("ImageV2.del", params, DelObj(imagesV2, params))

\* ---------------------------------------------------------------------- pull

\* opts.res, the chunked response: the payloads written before end(), whether
\* end() was called and how many times, and the writes made after it
NewRes == [body |-> << >>, ended |-> FALSE, ends |-> 0, afterEnd |-> << >>]

ResWrite(res, payload) ==
    IF res.ended THEN [res EXCEPT !.afterEnd = Append(@, payload)]
    ELSE [res EXCEPT !.body = Append(@, payload)]

ResEnd(res) == [res EXCEPT !.ended = TRUE, !.ends = @ + 1]

\* the err.code of the errors the workflow service answers
PullErrorCodes == {"ENOTFOUND", "ResourceNotFound", "Other"}

\* errorAndEnd: the message for the error, by err.code
PullErrorMessage(code) ==
    IF code = "ENOTFOUND" THEN "host not found"
    ELSE IF code = "ResourceNotFound" THEN "image not found"
    ELSE "Internal error"

\* errorAndEnd: the payload is written and the response ended
errorAndEnd(res, code) ==
    ResEnd(ResWrite(res, [error |-> PullErrorMessage(code),
                          errorDetail |-> [message |-> PullErrorMessage(code)]]))

\* what common.waitForJob can do: the job succeeds or fails; called without
\* a job uuid (createPullJob failed) it can also throw
WaitAnswers(submit) ==
    ({"ok"} \cup PullErrorCodes) \cup (IF submit = "ok" THEN {} ELSE {"throws"})

\* pullImage: the pipeline createPullJob, waitForPullJob; callback is how the
\* pipeline ends: "none" for callback(), "never" when it is not reached
pullImage(submit, wait) ==
    LET created == IF submit = "ok" THEN NewRes ELSE errorAndEnd(NewRes, submit)
    IN  IF wait = "throws" THEN [res |-> created, callback |-> "never"]
        ELSE IF wait = "ok" THEN [res |-> created, callback |-> "none"]
        ELSE [res |-> errorAndEnd(created, wait), callback |-> "none"]

\* pullImage for a pull that leaves the records as they are: a failed job, or
\* the job of an image the owner holds already
PullImage(owner, submit, wait) ==
    /\ last = NoCall
    /\ LET got == pullImage(submit, wait)
       IN  last' = [op |-> "pullImage", owner |-> owner, submit |-> submit,
                    wait |-> wait, res |-> got.res, callback |-> got.callback,
                    err |-> "none"]
    /\ UNCHANGED <<imagesV1, tagsV1, imagesV2, tagsV2, blobs, gScratchImage, ctx>>

\* ImageTagV2.create: put by the key of a v2 tag record, (owner, repo, tag)
PutTagV2(bucket, t) ==
    { x \in bucket : ~(/\ x.owner_uuid = t.owner_uuid
                        /\ x.repo = t.repo
                        /\ x.tag = t.tag) } \cup {t}

\* the names images are tagged with
TagNames == { <<"r">>, <<"a">> }

\* tagImage with opts.img (no opts.digest, no opts.rat): a v1 image is
\* refused, a v2 image gets the tag record of the account for its digest
tagImage(s, owner, name, img) ==
    LET rat == ParseRepoAndTag(name)
    IN  IF isV1Image(img)
        THEN [err |-> "DockerError", s |-> s]
        ELSE [err |-> "none",
              s   |-> [s EXCEPT !.t2 = PutTagV2(@, ImageTagV2(owner,
                                           rat.localName, rat.tag, img.digest))]]

\* tagImage on an image the account holds
TagImage(owner, name, img) ==
    /\ last = NoCall
    /\ img.owner_uuid = owner
    /\ LET got == tagImage(Store, owner, name, img)
       IN  /\ SetStore(got.s)
           /\ last' = [op |-> "tagImage", owner |-> owner, name |-> name,
                       img |-> img, err |-> got.err, pre |-> Store]
    /\ UNCHANGED <<gScratchImage, ctx>>

\* the response of the last call is sent
Respond ==
    /\ last # NoCall
    /\ last' = NoCall
    /\ UNCHANGED <<imagesV1, tagsV1, imagesV2, tagsV2, blobs, gScratchImage, ctx>>

Next ==
    \/ \E owner \in Callers, name \in Names : DeleteImage(owner, name)
    \/ \E owner \in Callers, name \in Names, ix \in IndexNames \cup {NoIndex} :
           InspectImage(owner, name, ix)
    \/ \E owner \in Callers, all \in BOOLEAN, filters \in Filters,
          skip_v1_images \in BOOLEAN, skip_smartos \in BOOLEAN :
           ListImages(owner, all, filters, skip_v1_images, skip_smartos)
    \/ \E owner \in Callers, img \in imagesV1 \cup imagesV2 :
           GetImageHistory(owner, img)
    \/ \E owner \in Callers, submit \in {"ok"} \cup PullErrorCodes :
           \E wait \in WaitAnswers(submit) : PullImage(owner, submit, wait)
    \/ Respond

Spec == Init /\ [][Next]_vars

\* the docker_images_v2 bucket under the calls of its model, from the empty
\* bucket initImagesBucket leaves
InitModelV2 ==
    /\ imagesV1 = {} /\ tagsV1 = {} /\ imagesV2 = {} /\ tagsV2 = {}
    /\ blobs = {}
    /\ last = NoCall
    /\ gScratchImage = None
    /\ ctx = NoCtx

NextModelV2 ==
    \/ \E params \in ParamsV2 : createImage(params)
    \/ \E params \in ParamsV2 : updateImage(params)
    \/ \E params \in ParamsV2 : deleteImageV2Model(params)

SpecModelV2 == InitModelV2 /\ [][NextModelV2]_vars

\* what can have been pulled of the v1 chain aa <- ba <- bb
PullableV1Chain == {"A", "B"} \X {"io"} \X {Id_ba, Id_bb}

\* the stores of the three-image v1 chain, with two events more than Init
\* allows: what it takes for the blob of a child to outlive the records of
\* its image while its parent and grandparent are last references
InitCascade == InitWith(PullableV1Chain, {}, MaxEvents + 2, MaxGone)

SpecCascade == InitCascade /\ [][Next]_vars

\* what two tenants can have pulled of the same images
PullableV1Tenants == Owners \X {"io"} \X {Id_ab}

PullableV2Tenants == Owners \X {DigestOf(Id_ab), DigestOf(Id_bb)}

\* the stores of two tenants that both hold tag records
InitTenants ==
    InitStores(PullableV1Tenants, PullableV2Tenants, MaxEvents, MaxGone,
               Owners)

\* the calls of two tenants' stores: those of Next and tagImage
NextTenants ==
    \/ Next
    \/ \E owner \in Callers, name \in TagNames, img \in imagesV1 \cup imagesV2 :
           TagImage(owner, name, img)

SpecTenants == InitTenants /\ [][NextTenants]_vars

\* ------------------------------------------------------------ properties
\* The properties speak of the call `last` records: its inputs, the store it
\* found (last.pre), what resolution answered (last.img, last.imgTag), and
\* the store it left (the variables).

\* the last call is a deleteImage that resolved the name to a record
Deleting == last.op = "deleteImage" /\ last.img # None

DeletingV2 == Deleting /\ ~isV1Image(last.img)

DeletingV1 == Deleting /\ isV1Image(last.img)

\* the tag records of the owner on the image when the call started
TagsBefore == tagsForImage(last.pre, last.img, last.owner)

\* the blobs the call removed from IMGAPI
BlobsDeleted == last.pre.blobs \ blobs

\* C1: a v2 delete by a tag name, while several tag records of the owner
\* reference the digest, deletes that tag record and nothing else, and its
\* changeLog is [{Untagged: repo:tag}], whatever force is.
C1_UntagOnlyByTagV2 ==
    (DeletingV2 /\ last.imgTag # None /\ Cardinality(TagsBefore) > 1)
    => /\ last.err = "none"
       /\ last.changes =
              << [Untagged |-> last.imgTag.repo \o <<":">> \o last.imgTag.tag] >>
       /\ last.reqs = << >>
       /\ Store = [last.pre EXCEPT !.t2 = @ \ {last.imgTag}]
       /\ last.imgTag \in last.pre.t2

\* C1 happens: a forced v2 delete by tag name of an image with a parent and
\* two tags has only untagged
C1_Witness ==
    /\ DeletingV2 /\ last.imgTag # None /\ Cardinality(TagsBefore) > 1
    /\ last.force
    /\ ParentOf(last.img) # EmptyStr
    /\ last.imgTag \notin tagsV2
    /\ last.img \in imagesV2

\* C2: a v2 delete resolved without a tag record, while several tag records
\* reference the image, is a Conflict when force is not set; with force it
\* passes the tag check, and unless the workload check stops it every tag
\* record of the image is deleted and logged as Untagged.
C2_ByDigestNeedsForce ==
    (DeletingV2 /\ last.imgTag = None /\ Cardinality(TagsBefore) > 1)
    => IF ~last.force
       THEN /\ last.err = "ConflictTags"
            /\ last.changes = << >>
            /\ Store = last.pre
       ELSE /\ last.err # "ConflictTags"
            /\ last.err # "ConflictInUse"
               => /\ tagsV2 = last.pre.t2 \ TagsBefore
                  /\ Len(last.changes) >= Cardinality(TagsBefore)
                  /\ { last.changes[i] : i \in 1..Cardinality(TagsBefore) }
                         = { Untagged(t) : t \in TagsBefore }

\* C2 happens: a forced delete by digest of an image with two tags went
\* through and both tags are gone
C2_Witness ==
    /\ DeletingV2 /\ last.imgTag = None /\ Cardinality(TagsBefore) > 1
    /\ last.force
    /\ last.err = "none"
    /\ tagsForImage(Store, last.img, last.owner) = {}
    /\ last.img \notin imagesV2

\* C3 as stated: deleteImage on a v1 record that is not a head is a Conflict
\* and the call leaves every record, tag record and blob as it found them.
C3_NonHeadConflictTouchesNothing ==
    (DeletingV1 /\ last.img.head # TRUE)
    => /\ last.err = "ConflictHead"
       /\ Store = last.pre

\* C3, amended: deleteImage on a v1 record that is not a head is a Conflict
\* for any force, with an empty changeLog; the v1 records, the v1 tag records
\* and the blobs are as the call found them, and the only records gone are a
\* v2 record whose blob was absent, and its tag record, which name resolution
\* removed on its way to the v1 record.
C3_NonHeadConflict ==
    (DeletingV1 /\ last.img.head # TRUE)
    => /\ last.err = "ConflictHead"
       /\ last.changes = << >>
       /\ last.reqs = << >>
       /\ imagesV1 = last.pre.i1
       /\ tagsV1 = last.pre.t1
       /\ blobs = last.pre.blobs
       /\ imagesV2 \subseteq last.pre.i2
       /\ tagsV2 \subseteq last.pre.t2
       /\ \A r \in last.pre.i2 \ imagesV2 : ImageUuid(r) \notin last.pre.blobs
       /\ \A t \in last.pre.t2 \ tagsV2 :
              \E r \in last.pre.i2 \ imagesV2 : r.digest = t.digest

\* C3 happens: a forced delete of a v1 record that is not a head, which has a
\* tag record pointing at one of its heads, was refused
C3_Witness ==
    /\ DeletingV1 /\ last.img.head # TRUE
    /\ last.force
    /\ last.err = "ConflictHead"
    /\ tagsV1 # {}

\* C4: when another v2 record, of any owner, has the layer digests of the
\* image being deleted, the call asks IMGAPI to delete none of the blobs of
\* those layers.
C4_SharedLayersKept ==
    (DeletingV2
     /\ \E r \in last.pre.i2 :
            r # last.img /\ LayerDigests(r.digest) = LayerDigests(last.img.digest))
    => \A i \in 1..Len(last.reqs) :
           \A n \in 1..Len(LayerDigests(last.img.digest)) :
               last.reqs[i] # ImgUuidFromDockerDigests(
                                  SubSeq(LayerDigests(last.img.digest), 1, n))

\* C4 happens: a v2 image was deleted in full while a record of another
\* owner with the same layer digests stays, and so does the blob
C4_Witness ==
    /\ DeletingV2
    /\ last.err = "none" /\ ~last.untagOnly
    /\ last.img \notin imagesV2
    /\ \E r \in imagesV2 :
           /\ r.owner_uuid # last.owner
           /\ LayerDigests(r.digest) = LayerDigests(last.img.digest)
    /\ ImageUuid(last.img) \in blobs

\* the records the call set out to delete: the v1 ancestry of the image, or
\* the v2 image and its ancestors up to the first head
BeingDeleted ==
    IF isV1Image(last.img)
    THEN Range(getImageAncestry(last.pre, last.img).ancestry)
    ELSE Range(ImgsToDeleteV2(getImageAncestry(last.pre, last.img).ancestry))

\* C5: every blob a deleteImage call removed from IMGAPI is one that no
\* record of any owner and either schema referenced, the records the call set
\* out to delete aside, and that no blob left in IMGAPI has as its origin.
C5_BlobDeletedOnlyUnreferenced ==
    Deleting
    => \A b \in BlobsDeleted :
           /\ \A r \in (last.pre.i1 \cup last.pre.i2) \ BeingDeleted :
                  ImageUuid(r) # b
           /\ \A r \in imagesV1 \cup imagesV2 : ImageUuid(r) # b
           /\ \A c \in blobs : OriginOf(c) # b

\* C5 happens: a call removed a blob while records of another owner exist
C5_Witness ==
    /\ Deleting
    /\ BlobsDeleted # {}
    /\ \E r \in imagesV1 \cup imagesV2 : r.owner_uuid # last.owner

\* the tag records of the owner a name matches, in either schema
TagMatches(s, owner, name, index_name) ==
    LET rat == ParseRepoAndTag(name)
    IN  { t \in s.t2 : t.owner_uuid = owner /\ t.repo = rat.localName
                       /\ t.tag = rat.tag }
        \cup FindByNameV1(s, owner, rat, index_name)

\* the records, with their blob in IMGAPI, the tag records point at
TagTargets(s, owner, name, index_name) ==
    { r \in s.i1 \cup s.i2 :
        /\ r.owner_uuid = owner
        /\ ImageUuid(r) \in s.blobs
        /\ \E t \in TagMatches(s, owner, name, index_name) :
               IF isV1Image(r)
               THEN "docker_id" \in DOMAIN t /\ t.docker_id = r.docker_id
                    /\ t.index_name = r.index_name
               ELSE "digest" \in DOMAIN t /\ t.digest = r.digest }

\* the records of the owner whose content id (docker_id, or the hex part of
\* the digest) the name is a prefix of
PrefixMatches(s, owner, name) ==
    { r \in s.i1 \cup s.i2 :
        /\ r.owner_uuid = owner
        /\ IsPrefix(name, IF isV1Image(r) THEN r.docker_id
                          ELSE DockerIdFromDigest(r.digest)) }

\* C6 as stated: when a name matches a tag record of the owner and is also a
\* prefix of the content id of an image of the owner, a resolution that
\* answers an image answers the one the tag record points at.
C6_NameBeatsId ==
    (/\ last.op = "inspectImage"
     /\ last.err = "none"
     /\ TagTargets(last.pre, last.owner, last.name, last.index_name) # {}
     /\ PrefixMatches(last.pre, last.owner, last.name) # {})
    => last.img \in TagTargets(last.pre, last.owner, last.name, last.index_name)

\* the one record of a set, None when the set is not a singleton
TheOne(S) == IF Cardinality(S) = 1 THEN CHOOSE r \in S : TRUE ELSE None

\* C7 for the v2 resolver: what _imgFromNameV2 does when its tag or prefix
\* lookup finds exactly one record and the blob of that record is absent
HealsV2(owner, name) ==
    LET rat    == ParseRepoAndTag(name)
        imgTag == FindByNameV2(Store, owner, rat)
        img    == TheOne(FindImageV2(Store, owner, rat.localName, imgTag))
        gone   == _imgFromNameV2(Store, owner, rat, FALSE)
        failed == _imgFromNameV2(Store, owner, rat, TRUE)
    IN  (img # None /\ ImageUuid(img) \notin blobs)
        => /\ gone.err = "none" /\ gone.img = None
           /\ gone.s = [Store EXCEPT !.i2 = @ \ {img}, !.t2 = @ \ {imgTag}]
           /\ imgTag # None => imgTag \in tagsV2
           /\ failed.err = "ImgapiError" /\ failed.s = Store

\* C7 for the v1 resolver, for every index_name option and every tag record
\* the tag lookup can list first
HealsV1(owner, name) ==
    LET rat == ParseRepoAndTag(name)
    IN  \A index_name \in IndexNames \cup {NoIndex} :
          \A imgTag \in FirstTagsV1(Store, owner, name, index_name, FALSE) :
            LET img    == TheOne(FindImageV1(Store, owner, rat.localName,
                                             imgTag, index_name))
                gone   == _imgFromNameV1(Store, owner, rat, index_name,
                                         imgTag, FALSE)
                failed == _imgFromNameV1(Store, owner, rat, index_name,
                                         imgTag, TRUE)
            IN  (img # None /\ ImageUuid(img) \notin blobs)
                => /\ gone.err = "none" /\ gone.img = None
                   /\ gone.s = [Store EXCEPT !.i1 = @ \ {img},
                                             !.t1 = @ \ {imgTag}]
                   /\ imgTag # None => imgTag \in tagsV1
                   /\ failed.err = "ImgapiError" /\ failed.s = Store

\* C7: in every store the engine can be called on, when the tag or ID-prefix
\* lookup of a resolver (v1 or v2) finds exactly one record and IMGAPI answers
\* 404 for its blob, the resolver deletes that record, and the tag record it
\* went through if any, and nothing else, and answers no error and no record;
\* when IMGAPI answers another error the resolver answers that error and
\* deletes nothing.
C7_StaleRecordHealed ==
    last = NoCall
    => \A owner \in Callers, name \in Names :
           HealsV2(owner, name) /\ HealsV1(owner, name)

\* C7 happens: an inspect by a tag name found, through a v1 tag record, a
\* record whose blob was absent; both are gone and the call answers not found
C7_Witness ==
    /\ last.op = "inspectImage"
    /\ last.err = "ResourceNotFound"
    /\ \E t \in last.pre.t1 \ tagsV1, r \in last.pre.i1 \ imagesV1 :
           /\ t.docker_id = r.docker_id
           /\ ImageUuid(r) \notin last.pre.blobs
    /\ imagesV2 = last.pre.i2

\* C8 as stated, for the names that are a full image digest or a manifest
\* digest: when such a name denotes a record of the owner whose blob is
\* absent, a resolution of the name that IMGAPI answers removes the record.
C8_StaleRemovedByDigestName ==
    (last.op = "inspectImage" /\ last.err # "ImgapiError")
    => \A r \in last.pre.i2 :
           (/\ r.owner_uuid = last.owner
            /\ ImageUuid(r) \notin last.pre.blobs
            /\ \/ last.name = r.digest
               \/ ParseRepoAndTag(last.name).digest = ManifestDigestOf(r.digest))
           => r \notin imagesV2

\* C9: a deleteImage call that asks VMAPI fails with Conflict when the owner
\* has a running VM on the image, whatever force is, and when the owner has
\* stopped VMs only it fails with Conflict without force and goes on with
\* force; an untag-only call never asks VMAPI, and a call that is neither
\* untag-only nor already refused always does.
C9_WorkloadCheck ==
    Deleting
    => /\ last.vmQuery
          => /\ "running" \in last.vmStates => last.err = "ConflictInUse"
             /\ last.vmStates = {"stopped"}
                => (last.err = "ConflictInUse" <=> ~last.force)
             /\ last.vmStates = {} => last.err # "ConflictInUse"
             /\ last.err = "ConflictInUse" => last.changes = << >>
       /\ last.untagOnly => ~last.vmQuery /\ last.err # "ConflictInUse"
       /\ ~last.vmQuery => last.err # "ConflictInUse"
       /\ (/\ ~last.untagOnly
           /\ last.err \notin {"ConflictHead", "ConflictTags", "AssertionError"})
          => last.vmQuery

\* C9 happens: a forced delete of a v1 image went through although the owner
\* has a stopped VM on it
C9_Witness ==
    /\ DeletingV1
    /\ last.force
    /\ last.vmQuery /\ last.vmStates = {"stopped"}
    /\ last.err = "none"
    /\ last.img \notin imagesV1

\* the head images of the owner of the last call, per schema
HeadsV1 == { r \in imagesV1 : r.owner_uuid = last.owner /\ r.head }

HeadsV2 == { r \in imagesV2 : r.owner_uuid = last.owner /\ r.head }

\* C10: a listImages call without filters that does not skip the v1 images
\* answers, for every v1 head and every v2 head the owner holds, two different
\* entries: one whose Id is the docker_id, one whose Id is the digest.
C10_ListsBothSchemas ==
    (/\ last.op = "listImages" /\ last.filters = "none"
     /\ ~last.skip_v1_images)
    => /\ last.err = "none"
       /\ \A r1 \in HeadsV1, r2 \in HeadsV2 :
              \E i, j \in 1..Len(last.images) :
                  /\ i # j
                  /\ last.images[i].Id = r1.docker_id
                  /\ last.images[j].Id = r2.digest
       /\ Len(last.images) >= Cardinality(HeadsV1) + Cardinality(HeadsV2)

\* C10 happens: the owner holds a v1 head and a v2 head under the same
\* repo:tag and a listing that leaves out the intermediate layers was made
C10_Witness ==
    /\ last.op = "listImages" /\ last.filters = "none"
    /\ ~last.skip_v1_images /\ ~last.all
    /\ \E t1 \in tagsV1, t2 \in tagsV2, r1 \in HeadsV1, r2 \in HeadsV2 :
           /\ t1.owner_uuid = last.owner /\ t2.owner_uuid = last.owner
           /\ t1.repo = t2.repo /\ t1.tag = t2.tag
           /\ t1.docker_id = r1.docker_id /\ t1.index_name = r1.index_name
           /\ t2.digest = r2.digest
    /\ Len(last.images) = Cardinality(HeadsV1) + Cardinality(HeadsV2)

\* the v2 tag record and the v1 tag records the name of the last inspect
\* matched in the store it found
V2TagOfName ==
    LET rat == ParseRepoAndTag(last.name)
        ts  == { t \in last.pre.t2 : /\ t.owner_uuid = last.owner
                                      /\ t.repo = rat.localName
                                      /\ t.tag = rat.tag }
    IN  IF ts = {} THEN None ELSE CHOOSE t \in ts : TRUE

V1TagsOfName ==
    FindByNameV1(last.pre, last.owner, ParseRepoAndTag(last.name),
                 last.index_name)

\* the last call is an inspect of a repo:tag name that is tagged both on a v2
\* record and on a v1 record of the owner
InspectOfDoubleTag ==
    /\ last.op = "inspectImage"
    /\ V2TagOfName # None
    /\ \E r \in last.pre.i2 :
           r.owner_uuid = last.owner /\ r.digest = V2TagOfName.digest
    /\ \E t \in V1TagsOfName : \E r \in last.pre.i1 :
           /\ r.owner_uuid = last.owner /\ r.docker_id = t.docker_id
           /\ r.index_name = t.index_name

\* C11 as stated: an inspect of a name tagged on a v2 image and on a v1 image
\* of the owner, when IMGAPI answers, returns the v2 image the tag points at.
C11_V2TagBeatsV1Tag ==
    (InspectOfDoubleTag /\ last.err # "ImgapiError")
    => /\ last.img # None
       /\ ~isV1Image(last.img)
       /\ last.img.digest = V2TagOfName.digest

\* C11, amended: when the blob of the v2 image is in IMGAPI the inspect
\* returns the v2 image (or the IMGAPI error); when it is absent the v2 record
\* and its tag record are removed and the inspect never returns the v2 image:
\* it goes on to the v1 lookup.
C11_V2TagBeatsV1TagUnlessStale ==
    InspectOfDoubleTag
    => LET img == TheOne({ r \in last.pre.i2 :
                             /\ r.owner_uuid = last.owner
                             /\ r.digest = V2TagOfName.digest })
       IN  IF ImageUuid(img) \in last.pre.blobs
           THEN /\ last.err \in {"none", "ImgapiError"}
                /\ last.err = "none" => last.img = img /\ last.imgTag = V2TagOfName
                /\ Store = last.pre
           ELSE last.err # "ImgapiError"
                => /\ img \notin imagesV2 /\ V2TagOfName \notin tagsV2
                   /\ last.img # None => isV1Image(last.img)

\* C11 happens: an inspect of a name tagged on a v1 head and on a v2 head,
\* both with their blobs, returned the v2 image
C11_Witness ==
    /\ InspectOfDoubleTag
    /\ last.err = "none"
    /\ ~isV1Image(last.img)
    /\ \E t \in V1TagsOfName : \E r \in last.pre.i1 :
           /\ r.docker_id = t.docker_id /\ r.index_name = t.index_name
           /\ ImageUuid(r) \in last.pre.blobs

\* listImages without filters shows an entry with this Id to the owner
Listed(s, owner, id) ==
    LET images == listImages(s, owner, FALSE, "none", FALSE, TRUE).images
    IN  \E i \in 1..Len(images) : images[i].Id = id

\* the v2 record the v2 tag record of the name points at, None without one
V2ImageOfName ==
    IF V2TagOfName = None THEN None
    ELSE TheOne({ r \in last.pre.i2 : /\ r.owner_uuid = last.owner
                                      /\ r.digest = V2TagOfName.digest })

\* the v1 records the v1 tag records of the name point at
V1ImagesOfName ==
    { r \in last.pre.i1 :
        /\ r.owner_uuid = last.owner
        /\ \E t \in FindByNameV1(last.pre, last.owner,
                                 ParseRepoAndTag(last.name), NoIndex) :
               t.docker_id = r.docker_id /\ t.index_name = r.index_name }

\* the last call is a deleteImage(N), answered by IMGAPI and with no workload
\* of the owner around, on a store where N is the only tag of a v2 image and
\* a tag of a v1 image, both with their blobs
FirstDeleteOfDoubleTag ==
    /\ last.op = "deleteImage"
    /\ last.err # "ImgapiError"
    /\ last.vmStates = {}
    /\ V2ImageOfName # None
    /\ ImageUuid(V2ImageOfName) \in last.pre.blobs
    /\ tagsForImage(last.pre, V2ImageOfName, last.owner) = {V2TagOfName}
    /\ V1ImagesOfName # {}
    /\ \A r \in V1ImagesOfName : ImageUuid(r) \in last.pre.blobs

\* what a second deleteImage(N) then does, in every way it can go with IMGAPI
\* answering and no workload around: it succeeds and no image of `gone` is
\* listed afterwards
SecondDeleteRemoves(gone) ==
    \A o \in DeleteOutcomes(Store, last.owner, last.name) :
        (o.last.err # "ImgapiError" /\ o.last.vmStates = {})
        => /\ o.last.err = "none"
           /\ \A id \in gone : ~Listed(o.s, last.owner, id)

SingleV1ImageOfName ==
    /\ Cardinality(FindByNameV1(last.pre, last.owner,
                                ParseRepoAndTag(last.name), NoIndex)) = 1
    /\ Cardinality(V1ImagesOfName) = 1
    /\ LET r == TheOne(V1ImagesOfName)
       IN  /\ Cardinality({ x \in last.pre.i1 :
                              /\ x.owner_uuid = last.owner
                              /\ x.docker_id = r.docker_id }) = 1
           /\ Cardinality(tagsForImage(last.pre, r, last.owner)) = 1
           /\ ~getImageAncestry(last.pre, r).isPartial
    /\ \A x \in last.pre.i2 \ {V2ImageOfName} :
           x.owner_uuid = last.owner
           => ~IsPrefix(ParseRepoAndTag(last.name).localName,
                        DockerIdFromDigest(x.digest))

FailPoints == 0..Len(<<Id_ba, Id_ab, Id_aa>>)

\* the records that are the parent of a record: same schema, same owner, for
\* v1 the same index host, and the id the record names as its parent
ParentsOf(img) ==
    IF isV1Image(img)
    THEN { r \in imagesV1 : /\ r.owner_uuid = img.owner_uuid
                            /\ r.index_name = img.index_name
                            /\ r.docker_id = ParentV1(img.docker_id) }
    ELSE { r \in imagesV2 : /\ r.owner_uuid = img.owner_uuid
                            /\ r.digest = ParentV2(img.digest) }

\* the parent lookups a walk makes from a record when none fails
RECURSIVE LookupsFrom(_)
LookupsFrom(img) ==
    IF ParentOf(img) = EmptyStr THEN 0
    ELSE IF ParentsOf(img) = {} THEN 1
    ELSE 1 + LookupsFrom(CHOOSE r \in ParentsOf(img) : TRUE)

\* C13: in every store, for every record and every parent lookup that moray
\* can fail at: when no lookup the walk makes fails, getImageAncestry answers
\* without error the record followed by its successive parents, and isPartial
\* says that the last one names a parent of which there is no record; when a
\* lookup the walk makes fails otherwise, it answers the error.
C13_AncestryWalk ==
    last = NoCall
    => \A img \in imagesV1 \cup imagesV2, failAt \in FailPoints :
           LET walk == AncestryWalk(Store, img, failAt)
               n    == Len(walk.ancestry)
           IN  IF failAt \in 1..LookupsFrom(img)
               THEN walk.err = "MorayError"
               ELSE /\ walk.err = "none"
                    /\ n >= 1
                    /\ walk.ancestry[1] = img
                    /\ \A i \in 1..(n - 1) :
                           walk.ancestry[i + 1] \in ParentsOf(walk.ancestry[i])
                    /\ walk.isPartial = (ParentOf(walk.ancestry[n]) # EmptyStr)
                    /\ walk.isPartial => ParentsOf(walk.ancestry[n]) = {}
                    /\ ~walk.isPartial => n = Cardinality(
                           IF isV1Image(img) THEN ChainV1(img.docker_id)
                           ELSE ChainV2(img.digest))

\* C13 happens: a v1 delete walked an ancestry that stopped at a missing
\* parent, logged the warning and deleted the records it reached
C13_Witness ==
    /\ DeletingV1
    /\ last.err = "none"
    /\ getImageAncestry(last.pre, last.img).isPartial
    /\ Len(last.changes) > 1
    /\ last.changes[1] = MissingHistoryWarning(last.name)
    /\ last.img \notin imagesV1

\* the last call is an unforced deleteImage of a v1 head image that has one
\* tag and no child record, with no workload of the owner on it
DeletingLoneV1Head ==
    /\ DeletingV1
    /\ ~last.force
    /\ last.img.head
    /\ Cardinality(TagsBefore) = 1
    /\ ~\E r \in last.pre.i1 : /\ r.owner_uuid = last.img.owner_uuid
                               /\ r.index_name = last.img.index_name
                               /\ ParentV1(r.docker_id) = last.img.docker_id
    /\ last.vmStates = {}

UnsharedAndComplete ==
    /\ last.img.heads = <<last.img.docker_id>>
    /\ ~getImageAncestry(last.pre, last.img).isPartial

IsUntaggedEntry(e) == "Untagged" \in DOMAIN e

IsDeletedEntry(e) == "Deleted" \in DOMAIN e

IsWarningEntry(e) == IsDeletedEntry(e) /\ e = MissingHistoryWarning(last.name)

\* position i of the change log of the last call says that the blob of layer
\* n (1 is the root layer) of the deleted v2 image is gone
IsLayerEntry(i, n) ==
    /\ IsDeletedEntry(last.changes[i])
    /\ n \in 1..Len(LayerDigests(last.img.digest))
    /\ last.changes[i].Deleted = <<"diff", LayerDigests(last.img.digest)[n]>>

\* the change log of the last call has its entries in the order: Untagged
\* before Deleted, v1 records child before parent, v2 blobs leaf before root;
\* the entries at the positions of `skip` aside
ChangeLogOrdered(skip) ==
    LET at == (1..Len(last.changes)) \ skip
    IN  /\ \A i, j \in at :
               (IsUntaggedEntry(last.changes[i]) /\ IsDeletedEntry(last.changes[j]))
               => i < j
        /\ (last.img # None /\ isV1Image(last.img))
           => \A i, j \in at :
                  (/\ IsDeletedEntry(last.changes[i])
                   /\ IsDeletedEntry(last.changes[j])
                   /\ last.changes[j].Deleted \in DockerIds
                   /\ last.changes[i].Deleted
                          = ParentV1(last.changes[j].Deleted))
                  => j < i
        /\ (last.img # None /\ ~isV1Image(last.img))
           => \A i, j \in at : \A n, m \in 1..Len(LayerDigests(last.img.digest)) :
                  (IsLayerEntry(i, n) /\ IsLayerEntry(j, m) /\ n > m) => i < j

RECURSIVE BlobsAfter(_)
BlobsAfter(k) ==
    IF k = 0 THEN last.pre.blobs
    ELSE IF ImgapiDeleteImage(BlobsAfter(k - 1), last.reqs[k]) = "ok"
    THEN BlobsAfter(k - 1) \ {last.reqs[k]}
    ELSE BlobsAfter(k - 1)

\* IMGAPI's answer to the k-th deletion request of the last call
AnswerAt(k) == ImgapiDeleteImage(BlobsAfter(k - 1), last.reqs[k])

\* the records the cascade of the last call is to delete: the v1 ancestry
\* records that serve no other head, the v2 image and its non-head ancestors
CascadeRecords ==
    IF isV1Image(last.img)
    THEN { r \in Range(getImageAncestry(last.pre, last.img).ancestry) :
             Refcount(r) <= 1 }
    ELSE { last.img } \cup
         Range(UntilHead(Tail(getImageAncestry(last.pre, last.img).ancestry)))

\* C16: an ImageHasDependentImages answer of IMGAPI during a v1 or v2 deletion
\* does not make deleteImage fail, it is the answer to the last deletion
\* request of the call, and every record of the cascade is deleted all the same.
C16_DependentAnswerStopsBlobDeletes ==
    Deleting
    => \A k \in 1..Len(last.reqs) :
           AnswerAt(k) = "ImageHasDependentImages"
           => /\ last.err = "none"
              /\ k = Len(last.reqs)
              /\ CascadeRecords \cap (imagesV1 \cup imagesV2) = {}
              /\ \A r \in CascadeRecords :
                     \E i \in 1..Len(last.changes) :
                         last.changes[i]
                             = Deleted(IF isV1Image(r) THEN r.docker_id
                                       ELSE r.digest)

\* C16 happens: IMGAPI answered ImageHasDependentImages for the blob of the v1
\* image, and the record of its parent, whose blob is a last reference too,
\* was deleted after that
C16_Witness ==
    /\ DeletingV1
    /\ Len(last.reqs) = 1
    /\ AnswerAt(1) = "ImageHasDependentImages"
    /\ last.reqs[1] = ImageUuid(last.img)
    /\ \E r \in last.pre.i1 \ imagesV1 :
           /\ r.docker_id = ParentV1(last.img.docker_id)
           /\ r.docker_id \in DatacenterRefcount(last.pre, r.index_name,
                                  last.img.docker_id, RefcountLimit)

\* the v1 records of the owner whose docker_id starts with the name, under the
\* index given (any index for NoIndex)
MatchedByIdPrefix(owner, name, index_name) ==
    { r \in imagesV1 : /\ r.owner_uuid = owner
                       /\ Len(name) <= Len(r.docker_id)
                       /\ SubSeq(r.docker_id, 1, Len(name)) = name
                       /\ (index_name \in IndexNames => r.index_name = index_name) }

\* the names of the calls that are hex strings no longer than an id
IdPrefixes == { n \in Names : IsHex(n) /\ Len(n) <= IdLen }

\* C17: v1 resolution by id prefix (no tag record found) on the store as it
\* is: records of two or more docker_ids matched, it completes with no record
\* and no error; records of one docker_id under several index hosts matched,
\* it fails with AmbiguousId.
C17_PrefixAmbiguity ==
    \A owner \in Callers, name \in IdPrefixes,
       index_name \in IndexNames \cup {NoIndex}, fault \in BOOLEAN :
        LET matched == MatchedByIdPrefix(owner, name, index_name)
            got == _imgFromNameV1(Store, owner, ParseRepoAndTag(name),
                                  index_name, None, fault)
        IN  /\ Cardinality({ r.docker_id : r \in matched }) >= 2
               => /\ got.err = "none"
                  /\ got.img = None
                  /\ got.s = Store
            /\ (/\ Cardinality({ r.docker_id : r \in matched }) = 1
                /\ Cardinality({ r.index_name : r \in matched }) > 1)
               => got.err = "AmbiguousId"

\* C17 happens: an inspectImage by an id that the owner holds under two index
\* hosts, and under no tag, failed with AmbiguousId; the same owner has a
\* prefix that matches two docker_ids
C17_Witness ==
    /\ last.op = "inspectImage"
    /\ last.name \in IdPrefixes
    /\ last.index_name = NoIndex
    /\ last.err = "AmbiguousId"
    /\ Cardinality({ r.index_name :
                       r \in MatchedByIdPrefix(last.owner, last.name, NoIndex) }) > 1
    /\ Cardinality({ r.docker_id :
                       r \in MatchedByIdPrefix(last.owner, last.name, NoIndex) }) = 1
    /\ \E n \in IdPrefixes :
           Cardinality({ r.docker_id :
                           r \in MatchedByIdPrefix(last.owner, n, NoIndex) }) >= 2

\* the v2 tag records of the owner that the name of the last call names
V2TagsNamed ==
    { t \in last.pre.t2 : /\ t.owner_uuid = last.owner
                          /\ t.repo = ParseRepoAndTag(last.name).localName
                          /\ t.tag = ParseRepoAndTag(last.name).tag }

\* the v2 records of the owner whose digest starts with the name of the last
\* call, given as hex or as sha256:hex
V2DigestPrefixMatches ==
    LET hex == IF IsPrefix(Sha256Prefix, last.name)
               THEN SubSeq(last.name, Len(Sha256Prefix) + 1, Len(last.name))
               ELSE last.name
    IN  { r \in last.pre.i2 :
            /\ r.owner_uuid = last.owner
            /\ IsHex(hex)
            /\ Len(hex) < IdLen
            /\ SubSeq(DockerIdFromDigest(r.digest), 1, Len(hex)) = hex }

\* C18 as stated: when the name matches no v2 tag record and is a digest
\* prefix of more than one v2 record of the owner, imgFromName returns no
\* record, whatever the v1 buckets hold.
C18_AmbiguousV2PrefixNotFound ==
    (/\ last.op \in {"inspectImage", "deleteImage"}
     /\ V2TagsNamed = {}
     /\ Cardinality(V2DigestPrefixMatches) > 1)
    => last.img = None

\* C19: for a v2 image getImageHistory answers without error as many entries
\* as the history list of the record has; the entries of the walked ancestry
\* come first, and the entries of the list that the walk did not reach, the
\* oldest ones, follow as "<missing>" entries, the newest of them first.
C19_HistoryLength ==
    (last.op = "getImageHistory" /\ ~isV1Image(last.img))
    => LET imgHist == HistoryOf(last.img.digest)
           walked  == Len(getImageAncestry(last.pre, last.img).ancestry)
       IN  /\ last.err = "none"
           /\ Len(last.history) = Len(imgHist)
           /\ \A i \in 1..Len(last.history) :
                  IF i <= walked
                  THEN last.history[i].Id
                           = getImageAncestry(last.pre, last.img).ancestry[i].digest
                  ELSE /\ last.history[i].Id = MissingId
                       /\ last.history[i].CreatedBy = imgHist[Len(imgHist) + 1 - i]

\* C19 happens: the history of a v2 image whose list has three entries was
\* asked while the walk reached the image only, and two entries were made up
C19_Witness ==
    /\ last.op = "getImageHistory"
    /\ ~isV1Image(last.img)
    /\ last.err = "none"
    /\ Len(getImageAncestry(last.pre, last.img).ancestry) = 1
    /\ Len(last.history) = 3
    /\ last.history[2].Id = MissingId
    /\ last.history[3].Id = MissingId

\* the Ids of the entries listSmartOSImages makes for the owner of the last
\* call
SmartOSIds == { i.uuid \o i.uuid : i \in SmartOSImages(last.owner) }

\* the head images the owner of the last call holds without any tag record
UntaggedHeads ==
    { r \in HeadsV1 : ~\E t \in tagsV1 : /\ t.owner_uuid = last.owner
                                         /\ t.docker_id = r.docker_id } \cup
    { r \in HeadsV2 : ~\E t \in tagsV2 : /\ t.owner_uuid = last.owner
                                         /\ t.digest = r.digest }

\* a listImages call with the filter dangling=true for an owner without
\* untagged image
DanglingListing ==
    /\ last.op = "listImages"
    /\ last.filters = "dangling"
    /\ UntaggedHeads = {}

\* C20 as stated: such a listing answers no v1 and no v2 image, and no
\* fleet-native image either, those being never dangling.
C20_DanglingListsNothing ==
    DanglingListing
    => /\ last.err = "none"
       /\ last.images = << >>

\* C20, amended: such a listing answers no v1 and no v2 image; the
\* fleet-native images are not filtered: the answer holds exactly their
\* entries, unless the call skips them.
C20_DanglingListsFleetNativeOnly ==
    DanglingListing
    => /\ last.err = "none"
       /\ \A i \in 1..Len(last.images) : last.images[i].Id \in SmartOSIds
       /\ { last.images[i].Id : i \in 1..Len(last.images) }
              = IF last.skip_smartos THEN {} ELSE SmartOSIds

\* C20 happens: the owner holds a tagged v1 head and a tagged v2 head, no
\* untagged one, and a dangling=true listing that skips nothing answered the
\* fleet-native image only
C20_Witness ==
    /\ DanglingListing
    /\ HeadsV1 # {} /\ HeadsV2 # {}
    /\ ~last.skip_smartos /\ ~last.skip_v1_images
    /\ Len(last.images) = Cardinality(SmartOSIds)

\* C21 as stated: a listImages call with a filter on a field other than
\* dangling and label fails with the invalid-filter error and answers no
\* listing, whatever the stores hold.
C21_UnknownFilterFails ==
    (last.op = "listImages" /\ last.filters = "unknown")
    => /\ last.err = "InvalidFilter"
       /\ last.images = << >>

\* C22 as stated: when the job submission or the wait for the job fails,
\* pullImage writes the error as one final payload {error,
\* errorDetail.message}, ends the response and calls back without an error.
C22_PullErrorIsOnePayload ==
    (last.op = "pullImage" /\ (last.submit # "ok" \/ last.wait # "ok"))
    => /\ last.callback = "none"
       /\ last.res.ended
       /\ Len(last.res.body) = 1
       /\ last.res.afterEnd = << >>
       /\ last.res.body[1].error = last.res.body[1].errorDetail.message

\* C23: the store holds at most one v2 record per (owner_uuid, digest),
\* whatever records were created, updated and deleted; a create for a pair
\* that has a record leaves the new record as the only one of the pair.
C23_OneRecordPerOwnerDigest ==
    /\ \A r1, r2 \in imagesV2 :
           (r1.owner_uuid = r2.owner_uuid /\ r1.digest = r2.digest) => r1 = r2
    /\ (last.op = "ImageV2.create")
       => { r \in imagesV2 : /\ r.owner_uuid = last.params.owner_uuid
                             /\ r.digest = last.params.digest } = {last.params}

\* C23 happens: a record was created for a pair that had a record with
\* another head flag, next to records of the other owner and other digests
C23_Witness ==
    /\ last.op = "ImageV2.create"
    /\ last.had # {}
    /\ last.had # {last.params}
    /\ last.params \in imagesV2
    /\ Cardinality(imagesV2) >= 3

\* the records of a store that another owner than the one given holds
OthersRecords(s, owner) ==
    [i1 |-> { r \in s.i1 : r.owner_uuid # owner },
     t1 |-> { t \in s.t1 : t.owner_uuid # owner },
     i2 |-> { r \in s.i2 : r.owner_uuid # owner },
     t2 |-> { t \in s.t2 : t.owner_uuid # owner }]

\* C24: a resolve (inspectImage), list, history, tag or deleteImage call made
\* for an owner leaves the image records and the tag records of every other
\* owner as they were: none is created, updated or deleted.
C24_OtherOwnersUntouched ==
    last.op \in {"inspectImage", "listImages", "getImageHistory", "tagImage",
                 "deleteImage"}
        => OthersRecords(Store, last.owner) = OthersRecords(last.pre, last.owner)

\* C24 witness: a full v2 deletion for A removed A's record and tag records of
\* a digest that B holds a record and a tag record of, and B's record kept
\* the backing blob
C24_Witness ==
    /\ DeletingV2 /\ last.err = "none" /\ ~last.untagOnly
    /\ last.img \notin imagesV2
    /\ TagsBefore # {}
    /\ \E r \in imagesV2 : /\ r.owner_uuid # last.owner
                            /\ r.digest = last.img.digest
                            /\ \E t \in tagsV2 : /\ t.owner_uuid = r.owner_uuid
                                                  /\ t.digest = r.digest
    /\ ImageUuid(last.img) \in blobs

\* the last call is a deleteImage of a v1 head image that several tag records
\* of the owner reference
DeletingMultiTaggedV1Head ==
    /\ DeletingV1
    /\ last.img.head
    /\ Cardinality(TagsBefore) > 1

\* C25: deleting a v1 head image that more than one tag record references: a
\* name that resolved through a tag record deletes that tag record and leaves
\* the image records, the other tag records and the blobs as they were; an
\* ID or ID prefix without force fails with the tags conflict.
C25_MultiTaggedV1Head ==
    DeletingMultiTaggedV1Head =>
        /\ last.imgTag # None =>
              /\ last.err = "none"
              /\ tagsV1 = last.pre.t1 \ {last.imgTag}
              /\ imagesV1 = last.pre.i1
              /\ blobs = last.pre.blobs
        /\ (last.imgTag = None /\ ~last.force) => last.err = "ConflictTags"

\* the last call resolved a name with imgFromName and the lookups answered
Resolving ==
    /\ last.op \in {"inspectImage", "deleteImage"}
    /\ last.err \in {"none", "ResourceNotFound"} \/ last.img # None

\* opts.index_name of the call: deleteImage gives none
IndexOfCall ==
    IF last.op = "inspectImage" THEN last.index_name ELSE NoIndex

\* the tag records of the owner, in the store the call found, that carry the
\* repo and tag of the name given (and the index the call is scoped to, for
\* a v1 tag record)
TagsOfGivenName ==
    LET rat == ParseRepoAndTag(last.name)
    IN  { t \in last.pre.t1 \cup last.pre.t2 :
            /\ t.owner_uuid = last.owner
            /\ t.repo = rat.localName
            /\ t.tag = rat.tag
            /\ (t \in last.pre.t1 /\ IndexOfCall # NoIndex)
                  => t.index_name = IndexOfCall }

\* a tag record points at a record of its schema
PointsAt(t, img) ==
    IF isV1Image(img)
    THEN t \in last.pre.t1 /\ t.docker_id = img.docker_id
    ELSE t \in last.pre.t2 /\ t.digest = img.digest

FullDeletionV2 ==
    /\ DeletingV2
    /\ last.vmQuery
    /\ last.err # "ConflictInUse"

\* the v2 records of any owner, in the store the call found, that reference a
\* blob and are not among the records of the cascade
ResidualRefs(uuid) ==
    Cardinality({ r \in last.pre.i2 \ BeingDeleted : ImageUuid(r) = uuid })

\* the blob deletions a cascade asks for when each layer, leaf first, is
\* guarded by ResidualRefs: none from the first layer with a residual
\* reference on, none after an answer of IMGAPI that is not a deletion
RECURSIVE GuardedBlobRequests(_, _)
GuardedBlobRequests(layers, blobSet) ==
    IF layers = << >> THEN << >>
    ELSE LET uuid == Head(layers).uuid
         IN  IF ResidualRefs(uuid) > 0 THEN << >>
             ELSE IF ImgapiDeleteImage(blobSet, uuid) = "ok"
             THEN <<uuid>> \o GuardedBlobRequests(Tail(layers), blobSet \ {uuid})
             ELSE <<uuid>>

\* C27: in a full v2 deletion the deletion of a layer's blob is asked of
\* IMGAPI exactly when no v2 record of any owner outside the cascade
\* references the blob and no layer nearer the leaf stopped the cascade,
\* however many records of the cascade share the blob.
C27_BlobGuardIsResidualCount ==
    FullDeletionV2 =>
        last.reqs = GuardedBlobRequests(Reverse(LayerInfos(last.img.digest)),
                                        last.pre.blobs)

\* the record of the owner, in the store the call found, for the parent
\* digest of a v2 record; None when there is none
ParentInStore(img) ==
    LET found == { r \in last.pre.i2 : /\ r.owner_uuid = img.owner_uuid
                                         /\ r.digest = ParentV2(img.digest) }
    IN  IF found = {} THEN None ELSE CHOOSE r \in found : TRUE

\* the consecutive non-head ancestors of a v2 record: its parents up to, and
\* without, the first one that is a head image
RECURSIVE NonHeadAncestors(_)
NonHeadAncestors(img) ==
    LET p == ParentInStore(img)
    IN  IF p = None \/ p.head THEN {} ELSE {p} \cup NonHeadAncestors(p)

\* C28: a full v2 deletion deletes no record but the target and its
\* consecutive non-head ancestors (the first head ancestor and the ancestors
\* older than it stay, non-head ones too), and when it succeeds it has
\* deleted exactly those.
C28_CascadeStopsAtHeadAncestor ==
    FullDeletionV2 =>
        LET cascade == {last.img} \cup NonHeadAncestors(last.img)
        IN  /\ last.pre.i2 \ imagesV2 \subseteq cascade
            /\ last.err = "none" => last.pre.i2 \ imagesV2 = cascade

\* C28 witness: a full v2 deletion succeeded on an image whose parent is a
\* head image with a non-head parent of its own: both ancestors stay
C28_Witness ==
    /\ FullDeletionV2 /\ last.err = "none"
    /\ last.img \notin imagesV2
    /\ LET p == ParentInStore(last.img)
       IN  /\ p # None /\ p.head /\ p \in imagesV2
           /\ ParentInStore(p) # None
           /\ ~ParentInStore(p).head
           /\ ParentInStore(p) \in imagesV2

\* the blob of the k-th layer of the image being deleted, counted from the
\* leaf layer
LeafwardBlob(k) ==
    LET layers == LayerDigests(last.img.digest)
    IN  ImgUuidFromDockerDigests(SubSeq(layers, 1, Len(layers) + 1 - k))

\* the layers, counted from the leaf, whose blob a v2 record outside the
\* cascade references
ResidualLayers ==
    { k \in 1..Len(LayerDigests(last.img.digest)) :
        ResidualRefs(LeafwardBlob(k)) > 0 }

\* C29: a full v2 deletion asks IMGAPI for blob deletions one layer at a
\* time from the leaf layer towards the root layer; from the first layer
\* whose blob has a residual reference on, no blob is asked for or deleted,
\* and the call fails only when IMGAPI fails a deletion it was asked for.
C29_BlobDeletesLeafToRoot ==
    FullDeletionV2 =>
        /\ Len(last.reqs) <= Len(LayerDigests(last.img.digest))
        /\ \A i \in 1..Len(last.reqs) : last.reqs[i] = LeafwardBlob(i)
        /\ \A k \in ResidualLayers :
              /\ Len(last.reqs) < k
              /\ \A j \in k..Len(LayerDigests(last.img.digest)) :
                    LeafwardBlob(j) \in blobs <=> LeafwardBlob(j) \in last.pre.blobs
        /\ last.err # "none" =>
              /\ last.reqs # << >>
              /\ AnswerAt(Len(last.reqs)) = "404"

\* C29 witness: a full v2 deletion had the leaf blob deleted, found the blob
\* of the next layer referenced by a record outside the cascade, left it in
\* IMGAPI and succeeded
C29_Witness ==
    /\ FullDeletionV2 /\ last.err = "none"
    /\ last.reqs = <<LeafwardBlob(1)>>
    /\ LeafwardBlob(1) \notin blobs
    /\ 2 \in ResidualLayers
    /\ LeafwardBlob(2) \in blobs
    /\ last.img \notin imagesV2

\* C30: a full v2 deletion that gets to deleting records (no blob deletion
\* failed) deletes every record of the cascade, the target and its
\* consecutive non-head ancestors, and logs a Deleted entry with the digest
\* of each, whether or not it reclaimed a blob.
C30_CascadeRecordsDeletedAndLogged ==
    (FullDeletionV2 /\ last.err = "none") =>
        \A r \in {last.img} \cup NonHeadAncestors(last.img) :
            /\ r \notin imagesV2
            /\ Cardinality({ i \in 1..Len(last.changes) :
                               last.changes[i] = Deleted(r.digest) }) = 1

\* C30 witness: a full v2 deletion asked IMGAPI for the blob of the image,
\* was answered ImageHasDependentImages, reclaimed no blob, and deleted and
\* logged the record
C30_Witness ==
    /\ FullDeletionV2 /\ last.err = "none"
    /\ last.reqs # << >>
    /\ AnswerAt(Len(last.reqs)) = "ImageHasDependentImages"
    /\ BlobsDeleted = {}
    /\ last.img \notin imagesV2
    /\ \E i \in 1..Len(last.changes) : last.changes[i] = Deleted(last.img.digest)

\* the last call is a v1 deletion that got to the ancestry walk (past the
\* head, tag and workload checks) and the walk was partial
DeletingV1Partial ==
    /\ DeletingV1
    /\ last.err \notin {"ConflictHead", "ConflictTags", "ConflictInUse",
                        "AssertionError"}
    /\ getImageAncestry(last.pre, last.img).isPartial

\* the positions of the warning entries of the change log
WarningEntries == { i \in 1..Len(last.changes) : IsWarningEntry(last.changes[i]) }

\* C31: a v1 deletion whose ancestry walk is partial does not fail: the tag
\* records it set out to delete are gone, so is the record of the image, and
\* the changeLog holds exactly one warning entry for the missing history.
C31_PartialAncestryDeletes ==
    DeletingV1Partial =>
        /\ last.err = "none"
        /\ Cardinality(WarningEntries) = 1
        /\ last.imgTag # None => last.imgTag \notin tagsV1
        /\ ~last.untagOnly => last.img \notin imagesV1

\* ------------------------------------------------------- the scratch image

\* manifest.layers[*].digest of etc/scratch_image.manifest
ScratchLayerDigests == <<"l0">>

\* imageUuid of the scratch image
ScratchUuid == ImgUuidFromDockerDigests(ScratchLayerDigests)

\* imageJsonToModel: the record getScratchImage answers
ScratchModel ==
    [kind |-> "image", schema |-> "v2", head |-> TRUE,
     image_uuid |-> ScratchUuid]

\* the IMGAPI request of getScratchImage that fails, if any
ScratchFaults == {"none", "find", "create", "import", "activate"}

ScratchAnswer(err, img, reqs, s, g) ==
    [err |-> err, img |-> img, reqs |-> reqs, s |-> s, g |-> g]

\* getScratchImage with gScratchImage = g: the cached record when there is
\* one; otherwise imgapiFindScratchImage, and when IMGAPI has no such image
\* imgapiCreateScratchImage, imgapiImportScratchImage and
\* imgapiActivateScratchImage, each ending the pipeline when it fails. No
\* statement assigns gScratchImage.
getScratchImage(g, s, fault) ==
    IF g # None
    THEN ScratchAnswer("none", g, << >>, s, g)
    ELSE
    LET found   == GetImage(s, ScratchUuid, fault = "find")
        created == [s EXCEPT !.blobs = @ \cup {ScratchUuid}]
    IN  IF found = "error"
        THEN ScratchAnswer("ImgapiError", None, <<"getImage">>, s, g)
        ELSE IF found = "ok"
        THEN ScratchAnswer("none", ScratchModel, <<"getImage">>, s, g)
        ELSE IF fault = "create"
        THEN ScratchAnswer("ImgapiError", None,
                           <<"getImage", "adminImportImage">>, s, g)
        ELSE IF fault = "import"
        THEN ScratchAnswer("ImgapiError", None,
                           <<"getImage", "adminImportImage", "addImageFile">>,
                           created, g)
        ELSE IF fault = "activate"
        THEN ScratchAnswer("ImgapiError", None,
                           <<"getImage", "adminImportImage", "addImageFile",
                             "activateImage">>, created, g)
        ELSE ScratchAnswer("none", ScratchModel,
                           <<"getImage", "adminImportImage", "addImageFile",
                             "activateImage">>, created, g)

\* a getScratchImage call of the process
GetScratchImage(fault) ==
    /\ last = NoCall
    /\ LET got == getScratchImage(gScratchImage, Store, fault)
       IN  /\ SetStore(got.s)
           /\ gScratchImage' = got.g
           /\ last' = [op |-> "getScratchImage", fault |-> fault,
                       err |-> got.err, img |-> got.img, reqs |-> got.reqs,
                       pre |-> Store, cached |-> gScratchImage]
    /\ UNCHANGED ctx

NextScratch ==
    \/ \E fault \in ScratchFaults : GetScratchImage(fault)
    \/ Respond

SpecScratch == Init /\ [][NextScratch]_vars

\* C32: whenever a getScratchImage call has succeeded, any later
\* getScratchImage call of the process, whatever IMGAPI would answer, returns
\* the same scratch image without any IMGAPI request and leaves the blobs as
\* they are.
C32_ScratchImageCached ==
    (last.op = "getScratchImage" /\ last.err = "none")
    => \A fault \in ScratchFaults :
           LET again == getScratchImage(gScratchImage, Store, fault)
           IN  /\ again.err = "none"
               /\ again.img = last.img
               /\ again.reqs = << >>
               /\ again.s = Store

\* the Conflict errors of deleteImage: a v1 record that is not a head, several
\* tags without force, the image in use
ConflictErrors == {"ConflictHead", "ConflictTags", "ConflictInUse"}

ConflictRefused == Deleting /\ last.err \in ConflictErrors

\* C33 as stated: whenever deleteImage fails with a Conflict error, every tag
\* record, image record and blob is as the call found it.
C33_ConflictTouchesNothing ==
    ConflictRefused => Store = last.pre

\* C33, amended: whenever deleteImage fails with a Conflict error, its
\* changeLog is empty, no IMGAPI delete was requested, nothing was created,
\* and the v1 records, v1 tag records and blobs are as the call found them;
\* the only records gone are v2 records whose blob was absent, and the v2 tag
\* records on them, which name resolution removed before the deletion began.
C33_ConflictDeletesOnlyStaleRecords ==
    ConflictRefused
    => /\ last.changes = << >>
       /\ last.reqs = << >>
       /\ imagesV1 = last.pre.i1
       /\ tagsV1 = last.pre.t1
       /\ blobs = last.pre.blobs
       /\ imagesV2 \subseteq last.pre.i2
       /\ tagsV2 \subseteq last.pre.t2
       /\ \A r \in last.pre.i2 \ imagesV2 :
              /\ ImageUuid(r) \notin last.pre.blobs
              /\ r # last.img
       /\ \A t \in last.pre.t2 \ tagsV2 :
              \E r \in last.pre.i2 \ imagesV2 : r.digest = t.digest

\* C33 happens: a delete was refused because a VM of the owner uses the
\* image, after name resolution had removed a stale v2 record
C33_Witness ==
    /\ ConflictRefused
    /\ last.err = "ConflictInUse"
    /\ imagesV2 # last.pre.i2
    /\ last.img \in imagesV1 \cup imagesV2

\* the stores of one owner with every blob in IMGAPI, under tagImage and
\* deleteImage calls
InitTagged == InitWith(PullableV1, PullableV2, MaxEvents, 0)

NextTagged ==
    \/ \E owner \in Callers, name \in TagNames, img \in imagesV1 \cup imagesV2 :
           TagImage(owner, name, img)
    \/ \E owner \in Callers, name \in Names : DeleteImage(owner, name)
    \/ Respond

SpecTagged == InitTagged /\ [][NextTagged]_vars

\* the v2 tag records of the callers that reference no v2 record of theirs
DanglingTagsV2 ==
    { t \in tagsV2 : /\ t.owner_uuid \in Callers
                     /\ ~\E r \in imagesV2 : /\ r.digest = t.digest
                                             /\ r.owner_uuid = t.owner_uuid }

\* C34: after any sequence of tagImage and deleteImage calls by one owner,
\* with every blob in IMGAPI at the start, every v2 tag record of the owner
\* references a v2 image record of the owner that is in the store.
C34_NoDanglingTagV2 ==
    DanglingTagsV2 = {}

\* ---------------------------------------------- concurrent v2 deletions
\* Two accounts run _deleteImageV2 at once; a step is one call to moray or
\* to IMGAPI. ctx[o] is the pipeline of account o: the image, the tag records
\* and records still to delete, the layers still to visit, leaf first.

\* the pipeline at the next call it makes to a store, "done" when it makes
\* none: deleteDockerTags, then deleteImgapiLayers, then deleteDockerImages
NextStoreCall(c) ==
    IF c.err # "none" THEN [c EXCEPT !.pc = "done"]
    ELSE IF c.imgTags # << >> THEN [c EXCEPT !.pc = "deleteDockerTags"]
    ELSE IF c.layers # << >> /\ ~c.hit THEN [c EXCEPT !.pc = "deleteLayer"]
    ELSE IF c.imgs # << >> THEN [c EXCEPT !.pc = "deleteDockerImages"]
    ELSE [c EXCEPT !.pc = "done"]

\* deleteImage by digest with force on a record of the account that IMGAPI has
\* the blob of, no VM using it: getImgTags and getImgsToDelete read the
\* records of the account
BeginDeleteV2(o, img) ==
    /\ ctx[o].pc = "idle"
    /\ img \in imagesV2 /\ img.owner_uuid = o
    /\ GetImage(Store, ImageUuid(img), FALSE) = "ok"
    /\ \E imgTags \in Orders(tagsForImage(Store, img, o)) :
         LET imgsToDelete == ImgsToDeleteV2(getImageAncestry(Store, img).ancestry)
         IN  ctx' = [ctx EXCEPT ![o] = NextStoreCall(
                        [pc |-> "getImgsToDelete", img |-> img,
                         imgTags |-> imgTags, imgsToDelete |-> imgsToDelete,
                         imgs |-> imgsToDelete,
                         layers |-> Reverse(LayerInfos(img.digest)),
                         hit |-> FALSE, changes |-> << >>, err |-> "none"])]
    /\ UNCHANGED <<imagesV1, tagsV1, imagesV2, tagsV2, blobs, last, gScratchImage>>

\* deleteDockerTags.untagOne: ImageTagV2.del of the next tag record
UntagOne(o) ==
    /\ ctx[o].pc = "deleteDockerTags"
    /\ tagsV2' = tagsV2 \ {Head(ctx[o].imgTags)}
    /\ ctx' = [ctx EXCEPT ![o] = NextStoreCall(
                  [@ EXCEPT !.imgTags = Tail(@),
                            !.changes = Append(@, Untagged(Head(ctx[o].imgTags)))])]
    /\ UNCHANGED <<imagesV1, tagsV1, imagesV2, blobs, last, gScratchImage>>

\* deleteLayer, first half: ImageV2.list of the records on the layer's uuid
DeleteLayerList(o) ==
    /\ ctx[o].pc = "deleteLayer"
    /\ ctx' = [ctx EXCEPT ![o] =
                  IF ImageRefCnt(Store, @.imgsToDelete, Head(@.layers).uuid) >= 1
                  THEN NextStoreCall([@ EXCEPT !.hit = TRUE])
                  ELSE [@ EXCEPT !.pc = "imgapi.deleteImage"]]
    /\ UNCHANGED <<imagesV1, tagsV1, imagesV2, tagsV2, blobs, last, gScratchImage>>

\* deleteLayer, second half: imgapi.deleteImage of the layer's blob
DeleteLayerImgapi(o) ==
    /\ ctx[o].pc = "imgapi.deleteImage"
    /\ LET layer == Head(ctx[o].layers)
           res   == ImgapiDeleteImage(blobs, layer.uuid)
       IN  /\ blobs' = IF res = "ok" THEN blobs \ {layer.uuid} ELSE blobs
           /\ ctx' = [ctx EXCEPT ![o] = NextStoreCall(
                  IF res = "ImageHasDependentImages"
                  THEN [@ EXCEPT !.hit = TRUE]
                  ELSE IF res = "ok"
                  THEN [@ EXCEPT !.layers = Tail(@),
                                 !.changes = Append(@, Deleted(layer.diffId))]
                  ELSE [@ EXCEPT !.err = "ImgapiError"])]
    /\ UNCHANGED <<imagesV1, tagsV1, imagesV2, tagsV2, last, gScratchImage>>

\* deleteDockerImages.deleteOneImg: ImageV2.del of the next record
DeleteOneImg(o) ==
    /\ ctx[o].pc = "deleteDockerImages"
    /\ imagesV2' = imagesV2 \ {Head(ctx[o].imgs)}
    /\ ctx' = [ctx EXCEPT ![o] = NextStoreCall(
                  [@ EXCEPT !.imgs = Tail(@),
                            !.changes = Append(@, Deleted(Head(ctx[o].imgs).digest))])]
    /\ UNCHANGED <<imagesV1, tagsV1, tagsV2, blobs, last, gScratchImage>>

\* the v2 records and tag records of both accounts, every blob in IMGAPI
InitRace == InitStores({}, PullableV2Tenants, MaxEvents, 0, Owners)

NextRace ==
    \E o \in Owners :
        \/ \E img \in imagesV2 : BeginDeleteV2(o, img)
        \/ UntagOne(o)
        \/ DeleteLayerList(o)
        \/ DeleteLayerImgapi(o)
        \/ DeleteOneImg(o)

SpecRace == InitRace /\ [][NextRace]_vars

\* both accounts have completed, without error, the full deletion of their
\* record of one image
BothDeletedSameImage ==
    /\ \A o \in Owners : ctx[o].pc = "done" /\ ctx[o].err = "none"
    /\ ctx["A"].img.digest = ctx["B"].img.digest

\* C35: when two deleteImage calls of different accounts, each deleting its
\* own v2 record of the same image, have both completed, every blob of the
\* image's layers that no v2 record has in its layer chain and that IMGAPI
\* reports no dependent for has been deleted.
C35_NoOrphanBlob ==
    BothDeletedSameImage
    => \A k \in 1..Len(LayerInfos(ctx["A"].img.digest)) :
           LET uuid == LayerInfos(ctx["A"].img.digest)[k].uuid
           IN  (/\ ~\E r \in imagesV2 : uuid \in BlobChain(ImageUuid(r))
                /\ ~\E b \in blobs : OriginOf(b) = uuid)
               => uuid \notin blobs

\* C36: in any pullImage call the response is ended at most once and nothing
\* is written to it after it was ended, also when the job submission failed
\* and the wait step ran all the same.
C36_ResponseEndedOnce ==
    last.op = "pullImage"
    => /\ last.res.ends <= 1
       /\ last.res.afterEnd = << >>

\* C37: in every store, for every name and index scope: when _imgFromNameV1
\* runs with a tag record that the name matched, and IMGAPI answers, it does
\* not fail with AmbiguousId, and the record it returns is the record of the
\* tag's docker_id under the tag's own index host.
C37_TagResolutionUnambiguous ==
    last = NoCall
    => \A owner \in Callers, name \in Names, ix \in IndexNames \cup {NoIndex} :
           \A imgTag \in FindByNameV1(Store, owner, ParseRepoAndTag(name), ix) :
               LET got == _imgFromNameV1(Store, owner, ParseRepoAndTag(name),
                                         ix, imgTag, FALSE)
               IN  /\ got.err # "AmbiguousId"
                   /\ got.img # None
                      => /\ got.img.docker_id = imgTag.docker_id
                         /\ got.img.index_name = imgTag.index_name

\* ------------------------------------------- the ancestry walk, step by step
\* getImageAncestry over v1 records that carry the parent link they were
\* stored with, whatever it names; a step is one parent lookup.

\* a v1 record of account A under index host io with its parent field
LinkedImageV1(id, parent) ==
    [kind |-> "v1", owner_uuid |-> "A", index_name |-> "io", docker_id |-> id,
     parent |-> parent]

\* the finite stores of such records: at most one record per docker_id, the
\* parent of each any docker_id or none
LinkedStores ==
    { { LinkedImageV1(id, f[id]) : id \in held } :
        held \in SUBSET DockerIds, f \in [DockerIds -> DockerIds \cup {EmptyStr}] }

InitWalk ==
    /\ imagesV1 \in LinkedStores
    /\ tagsV1 = {} /\ imagesV2 = {} /\ tagsV2 = {}
    /\ blobs = {}
    /\ last = NoCall
    /\ gScratchImage = None
    /\ ctx = NoCtx

\* getImageAncestry(opts.img): addAndGetNextItem(opts.img) pushes the image
GetImageAncestry(img) ==
    /\ last = NoCall
    /\ img \in imagesV1
    /\ last' = [op |-> "getImageAncestry", img |-> img, callbacks |-> 0,
                err |-> "none", isPartial |-> FALSE]
    /\ UNCHANGED <<imagesV1, tagsV1, imagesV2, tagsV2, blobs, gScratchImage, ctx>>

\* addAndGetNextItem for the image pushed last: without a parent the walk
\* calls back; otherwise imgFromImgInfoV1 looks the parent up, and the walk
\* calls back with the error, or as partial when there is no such record, or
\* goes on with the parent record
AddAndGetNextItem ==
    /\ last.op = "getImageAncestry"
    /\ last.callbacks = 0
    /\ IF last.img.parent = EmptyStr
       THEN last' = [last EXCEPT !.callbacks = @ + 1]
       ELSE \E fails \in BOOLEAN :
              LET imgs == { r \in imagesV1 :
                              /\ r.owner_uuid = last.img.owner_uuid
                              /\ r.index_name = last.img.index_name
                              /\ r.docker_id = last.img.parent }
              IN  IF fails
                  THEN last' = [last EXCEPT !.callbacks = @ + 1,
                                            !.err = "MorayError"]
                  ELSE IF imgs = {}
                  THEN last' = [last EXCEPT !.callbacks = @ + 1,
                                            !.isPartial = TRUE]
                  ELSE last' = [last EXCEPT !.img = CHOOSE r \in imgs : TRUE]
    /\ UNCHANGED <<imagesV1, tagsV1, imagesV2, tagsV2, blobs, gScratchImage, ctx>>

NextWalk ==
    \/ \E img \in imagesV1 : GetImageAncestry(img)
    \/ AddAndGetNextItem

\* every lookup of a walk in progress is answered
SpecWalk == InitWalk /\ [][NextWalk]_vars /\ WF_vars(AddAndGetNextItem)

\* C38: for every finite record store, parent links forming a cycle included,
\* a getImageAncestry call invokes its callback, once, after finitely many
\* parent lookups.
C38_AncestryWalkCallsBack ==
    [](last.op = "getImageAncestry"
       => <>(last.op = "getImageAncestry" /\ last.callbacks = 1))

\* C39: whenever a v1 deletion reaches checkTagReferences with a name that
\* is not a prefix of the resolved docker_id and more than one tag record of
\* the owner on the image, resolution has handed over a tag record and the
\* branch's assertion does not fail, whatever the form of the name.
C39_UntagOnlyHasTagRecord ==
    (/\ DeletingV1
     /\ last.err # "ConflictHead"
     /\ ~IsPrefix(last.name, last.img.docker_id)
     /\ Cardinality(TagsBefore) > 1)
    => /\ last.imgTag # None
       /\ last.err # "AssertionError"

\* a v1 deletion that got as far as getImgsToDelete
ReachedImgsToDeleteV1 ==
    /\ DeletingV1
    /\ last.err \notin ConflictErrors \cup {"AssertionError"}

\* the entries of the changeLog with the key given
EntriesOf(key) ==
    { i \in 1..Len(last.changes) : key \in DOMAIN last.changes[i] }

\* C40: in a v1 deletion that got past its checks, partial ancestry or not,
\* the steps after the ancestry walk run once: the call completes (its
\* callback fires), there are no more Untagged entries than tag records the
\* call deleted, and no more Deleted entries, the warning aside, than image
\* records it deleted.
C40_StepsAfterWalkRunOnce ==
    ReachedImgsToDeleteV1
    => /\ last.err # "CallbackTwice"
       /\ Cardinality(EntriesOf("Untagged"))
              <= Cardinality(last.pre.t1 \ tagsV1)
       /\ Cardinality(EntriesOf("Deleted") \ WarningEntries)
              <= Cardinality(last.pre.i1 \ imagesV1)

====
